---- MODULE Spec2Model ----
(***************************************************************************)
(* A state-machine model of src/peak_curator.py (class PeakApp): the       *)
(* curation state, the recompute pipeline, the multi-sweep timing          *)
(* reconstruction and the width filter.                                    *)
(*                                                                         *)
(* Conventions.  Python's None is the record NoneVal-like value of each    *)
(* field; a Python exception leaving a function is an outcome record with  *)
(* raised = TRUE.  Times are integers, seconds in the calls of the timing   *)
(* function alone and milliseconds in the application's recordings;        *)
(* amplitudes are in thousandths of the trace unit, fs is an integer        *)
(* number of Hz.                                                            *)
(***************************************************************************)
EXTENDS Integers, Sequences, FiniteSets, TLC

VARIABLES
    mode,        \* self.mode: "csv" or "abf"
    abf,         \* self.abf: NoAbf or a pyabf.ABF-like object
    t_rel,       \* argument relative_times of _get_absolute_timing
    t_sweep,     \* argument sweep_num of _get_absolute_timing
    t_result,    \* outcome of the last _get_absolute_timing call
    w_sig,       \* argument signal of _filter_peaks_by_width
    w_peaks,     \* argument peaks of _filter_peaks_by_width
    w_fs,        \* self.fs during the width filter call
    w_min,       \* self.sb_min_width.value(), ms
    w_max,       \* self.sb_max_width.value(), ms
    w_result,    \* outcome of the last _filter_peaks_by_width call
    traces,      \* self.traces: the (time, voltage) arrays of a CSV recording
    fs,          \* self.fs: NoFs (None) or a rate in Hz
    peaks_removed,      \* self.peaks_removed: excluded candidate positions
    curated_peaks,      \* self.curated_peaks: NoCurated (None) or an index array
    current_file_path,  \* self.current_file_path: "" (None) or a file name
    cache,       \* self._cached_spectrogram with self._cached_params
    ui,          \* the values of the controls (sb_*, cb_*, chk_*)
    scatter,     \* the data of the spots held by self.scatter
    plot_trace,  \* the items of self.plot_trace
    plot_power,  \* the items of self.plot_power
    pyabf_installed,    \* whether "import pyabf" succeeded (line 60-63)
    recompute,   \* how the last _update_plots call of the last handler ended
    export_out,  \* what the last handler, if it was an export, did
    last_op,     \* the last handler run and its argument
    prev_removed,       \* self.peaks_removed before the last handler ran
    n_ops,       \* loads and control changes made so far
    runs,        \* the _update_plots calls of the last handler, in order
    p_call,      \* a call of one of the pure helpers: its name and arguments
    p_result     \* outcome of that call

timingVars == <<t_rel, t_sweep, t_result>>
widthVars == <<w_sig, w_peaks, w_fs, w_min, w_max, w_result>>
appVars == <<traces, fs, peaks_removed, curated_peaks, current_file_path, cache, ui,
             scatter, plot_trace, plot_power, pyabf_installed, recompute, export_out,
             last_op, prev_removed, n_ops, runs>>
pureVars == <<p_call, p_result>>
vars == <<mode, abf, timingVars, widthVars, appVars, pureVars>>

(***************************************************************************)
(* Bounds of the model.                                                    *)
(***************************************************************************)
MaxTableLen == 4      \* longest sweepTimesSec table drawn
MaxSweepNum == 3      \* largest sweep_num passed to the timing function
MaxCandidates == 2    \* longest candidate array drawn for the width filter
MaxOps == 2           \* loads and control changes in one run of the application
MaxClickPoints == 2   \* spots under the cursor at one click
MaxTraceLen == 14     \* longest raw trace handed to the filter pipeline alone
MaxTimeBins == 2      \* most time bins of a spectrogram handed to the band power

(***************************************************************************)
(* Attributes of the ABF object.  hasattr() is st # "missing"; a present   *)
(* attribute holds either None (st = "none") or a value (st = "val").      *)
(***************************************************************************)
Missing == [st |-> "missing", v |-> 0]
NoneAttr == [st |-> "none", v |-> 0]
Val(x) == [st |-> "val", v |-> x]

HasAttr(a) == a.st # "missing"

NoAbf == [kind |-> "None"]

\* No call made yet.
NoResult == [done |-> FALSE, raised |-> FALSE, exc |-> "", times |-> <<>>, tag |-> ""]

Returned(times, tag) ==
    [done |-> TRUE, raised |-> FALSE, exc |-> "", times |-> times, tag |-> tag]

Raised(exc) ==
    [done |-> TRUE, raised |-> TRUE, exc |-> exc, times |-> <<>>, tag |-> ""]

\* sweep_start + relative_times (numpy broadcast of a scalar over the array)
AddScalar(start, rel) == [i \in 1..Len(rel) |-> start + rel[i]]

(***************************************************************************)
(* Arrays.  A numpy array is a sequence; Python's 0-based index i is        *)
(* position i + 1.  Slice(x, a, b) is x[a:b] for 0 <= a, b <= len(x).       *)
(***************************************************************************)
Max2(a, b) == IF a >= b THEN a ELSE b
Min2(a, b) == IF a <= b THEN a ELSE b
SetMax(S) == CHOOSE m \in S : \A x \in S : x <= m
SetMin(S) == CHOOSE m \in S : \A x \in S : m <= x

At(x, i) == x[i + 1]
Slice(x, a, b) == IF b > a THEN [j \in 1..(b - a) |-> x[a + j]] ELSE <<>>

RECURSIVE SumTo(_, _)
SumTo(x, n) == IF n = 0 THEN 0 ELSE x[n] + SumTo(x, n - 1)
Sum(x) == SumTo(x, Len(x))

\* The k-th smallest element (k = 1 .. Len(x)) of a non-empty sequence.
Kth(x, k) ==
    CHOOSE v \in {x[i] : i \in 1..Len(x)} :
        /\ Cardinality({i \in 1..Len(x) : x[i] < v}) < k
        /\ Cardinality({i \in 1..Len(x) : x[i] <= v}) >= k

\* A baseline is the rational num / den.  np.median averages the two middle
\* elements of an even-sized sample; np.mean divides the sum by the count.
Median(x) ==
    LET n == Len(x) IN
    IF n % 2 = 1 THEN [num |-> 2 * Kth(x, (n + 1) \div 2), den |-> 2]
    ELSE [num |-> Kth(x, n \div 2) + Kth(x, n \div 2 + 1), den |-> 2]
Mean(x) == [num |-> Sum(x), den |-> Len(x)]

\* the elements of a set of integers in ascending order
RECURSIVE AscSeq(_)
AscSeq(S) == IF S = {} THEN <<>> ELSE LET m == SetMin(S) IN <<m>> \o AscSeq(S \ {m})

\* peak values of the arrays: x[idx] for an index array idx
Take(x, idx) == [j \in 1..Len(idx) |-> At(x, idx[j])]

\* x[mask] for a boolean mask of the same length: the kept elements, in order
RECURSIVE MaskTo(_, _, _)
MaskTo(x, mask, n) ==
    IF n = 0 THEN <<>>
    ELSE IF mask[n] THEN Append(MaskTo(x, mask, n - 1), x[n])
    ELSE MaskTo(x, mask, n - 1)
BoolIndex(x, mask) == MaskTo(x, mask, Len(x))

(***************************************************************************)
(* PeakApp._calculate_peak_widths (lines 762-822): FWHM of each peak, here  *)
(* in samples; the code's width in seconds is samples / fs.  int(0.1 * fs)  *)
(* and int(0.5 * fs) are fs \div 10 and fs \div 2 for the rates drawn.      *)
(***************************************************************************)
WidthBaselineWindow(rate) == Max2(20, rate \div 10)               \* line 773
WidthBaselineDistance(rate) == Max2(10, WidthBaselineWindow(rate) \div 4)   \* line 774

\* lines 776-792, shared in shape with the amplitude measurement
LocalBaseline(sig, p, window, distance) ==
    LET n == Len(sig)
        left_start == Max2(0, p - window - distance)
        left_end == Max2(0, p - distance)
        right_start == Min2(n, p + distance)
        right_end == Min2(n, p + window + distance)
        values == Slice(sig, left_start, left_end) \o Slice(sig, right_start, right_end)
    IN  IF values # <<>> THEN Median(values)
        ELSE Mean(Slice(sig, Max2(0, p - 5), Min2(n, p + 6)))

\* Mutant: the crossing test made strict.
AtOrBelowHalfMax_Below(x, peak_value, b) == 2 * b.den * x < b.den * peak_value + b.num

\* signal[i] <= half_max, with half_max = baseline + (peak_value - baseline) / 2
\* (line 795) and baseline = b.num / b.den, cleared of denominators.
AtOrBelowHalfMax(x, peak_value, b) == 2 * b.den * x <= b.den * peak_value + b.num

PeakWidthSamples(sig, p, rate) ==
    LET n == Len(sig)
        peak_value == At(sig, p)
        b == LocalBaseline(sig, p, WidthBaselineWindow(rate), WidthBaselineDistance(rate))
        search_window == Min2(Min2(p, n - p - 1), rate \div 2)          \* line 799
        \* range(peak_idx, max(0, peak_idx - search_window), -1), first hit
        lefts == {i \in (Max2(0, p - search_window) + 1)..p :
                     AtOrBelowHalfMax(At(sig, i), peak_value, b)}
        \* range(peak_idx, min(len(signal), peak_idx + search_window)), first hit
        rights == {i \in p..(Min2(n, p + search_window) - 1) :
                     AtOrBelowHalfMax(At(sig, i), peak_value, b)}
        left_idx == IF lefts = {} THEN p ELSE SetMax(lefts)
        right_idx == IF rights = {} THEN p ELSE SetMin(rights)
    IN  right_idx - left_idx

calculate_peak_widths(sig, peak_indices, rate) ==
    [j \in 1..Len(peak_indices) |-> PeakWidthSamples(sig, peak_indices[j], rate)]

(***************************************************************************)
(* PeakApp._filter_peaks_by_width (lines 1033-1052).  A width of w samples  *)
(* is w / fs seconds; w / fs >= min_width_ms / 1000 is compared after       *)
(* clearing denominators.                                                   *)
(***************************************************************************)
\* Mutant: the upper bound made exclusive.
filter_peaks_by_width_StrictMax(sig, peaks, rate, min_width_ms, max_width_ms) ==
    IF Len(peaks) = 0 THEN peaks
    ELSE LET widths == calculate_peak_widths(sig, peaks, rate)
             width_mask == [j \in 1..Len(peaks) |->
                               /\ widths[j] * 1000 >= min_width_ms * rate
                               /\ widths[j] * 1000 < max_width_ms * rate]
         IN  BoolIndex(peaks, width_mask)

filter_peaks_by_width(sig, peaks, rate, min_width_ms, max_width_ms) ==
    IF Len(peaks) = 0 THEN peaks
    ELSE LET widths == calculate_peak_widths(sig, peaks, rate)
             width_mask == [j \in 1..Len(peaks) |->
                               /\ widths[j] * 1000 >= min_width_ms * rate
                               /\ widths[j] * 1000 <= max_width_ms * rate]
         IN  BoolIndex(peaks, width_mask)

(***************************************************************************)
(* PeakApp._calculate_peak_amplitudes (lines 824-869) and _convert_units    *)
(* (lines 871-899).  An amplitude is the rational num / den, in thousandths *)
(* of the recording unit.                                                   *)
(***************************************************************************)
Q(n) == [num |-> n, den |-> 1]
Abs(n) == IF n < 0 THEN 0 - n ELSE n

AmplitudeBaselineWindow(rate) == Max2(10, rate \div 10)                    \* line 835

\* Mutant: the guard distance of the width measurement.
AmplitudeBaselineDistance_AsWidth(rate) == Max2(10, AmplitudeBaselineWindow(rate) \div 4)

AmplitudeBaselineDistance(rate) == Max2(5, AmplitudeBaselineWindow(rate) \div 4)  \* line 841

\* peak_value - baseline, lines 859 and 865
PeakAmplitude(sig, p, rate) ==
    LET b == LocalBaseline(sig, p, AmplitudeBaselineWindow(rate),
                           AmplitudeBaselineDistance(rate))
    IN  [num |-> b.den * At(sig, p) - b.num, den |-> b.den]

calculate_peak_amplitudes(sig, peak_indices, rate) ==
    [j \in 1..Len(peak_indices) |-> PeakAmplitude(sig, peak_indices[j], rate)]

\* max_val > k for k in thousandths; max_val is 1.0 for an empty array (line 881)
MaxValAbove(values, k) ==
    IF Len(values) = 0 THEN 1000 > k
    ELSE \E j \in 1..Len(values) : Abs(values[j].num) > k * values[j].den

Div1000(values) ==
    [j \in 1..Len(values) |-> [num |-> values[j].num, den |-> 1000 * values[j].den]]
Times1000(values) ==
    [j \in 1..Len(values) |-> [num |-> 1000 * values[j].num, den |-> values[j].den]]

Converted(values, label) == [values |-> values, label |-> label]

\* Mutant: the first threshold made inclusive.
convert_units_FromThousand(values, to_unit) ==
    IF to_unit = "Auto"
    THEN IF MaxValAbove(values, 1000000 - 1) THEN Converted(Div1000(values), "mV")
         ELSE IF MaxValAbove(values, 10000) THEN Converted(values, "mV")
         ELSE IF MaxValAbove(values, 10) THEN Converted(Times1000(values), "mV")
         ELSE Converted(Times1000(values), "mV")
    ELSE IF to_unit = "uV" THEN Converted(values, "uV")
    ELSE IF to_unit = "mV" THEN Converted(values, "mV")
    ELSE IF to_unit = "V" THEN Converted(values, "V")
    ELSE Converted(values, "units")

\* Mutant: magnitudes between 0.01 and 10 kept as they are.
convert_units_KeepUnits(values, to_unit) ==
    IF to_unit = "Auto"
    THEN IF MaxValAbove(values, 1000000) THEN Converted(Div1000(values), "mV")
         ELSE IF MaxValAbove(values, 10000) THEN Converted(values, "mV")
         ELSE IF MaxValAbove(values, 10) THEN Converted(values, "mV")
         ELSE Converted(Times1000(values), "mV")
    ELSE IF to_unit = "uV" THEN Converted(values, "uV")
    ELSE IF to_unit = "mV" THEN Converted(values, "mV")
    ELSE IF to_unit = "V" THEN Converted(values, "V")
    ELSE Converted(values, "units")

\* "uV" stands for the combo item "µV"
convert_units(values, to_unit) ==
    IF to_unit = "Auto"
    THEN IF MaxValAbove(values, 1000000) THEN Converted(Div1000(values), "mV")
         ELSE IF MaxValAbove(values, 10000) THEN Converted(values, "mV")
         ELSE IF MaxValAbove(values, 10) THEN Converted(Times1000(values), "mV")
         ELSE Converted(Times1000(values), "mV")
    ELSE IF to_unit = "uV" THEN Converted(values, "uV")
    ELSE IF to_unit = "mV" THEN Converted(values, "mV")
    ELSE IF to_unit = "V" THEN Converted(values, "V")
    ELSE Converted(values, "units")

(***************************************************************************)
(* PeakApp._get_absolute_timing (lines 673-713).                           *)
(* Each method yields an outcome, or FallThrough when control reaches the  *)
(* next method.                                                            *)
(***************************************************************************)
FallThrough == NoResult

\* len(x) of an attribute: raises TypeError on None, the only unsized value drawn.
Sized(a) == a.st = "val"

\* Method 1, lines 688-694.  The guard hasattr(...) and len(...) > sweep_num is
\* evaluated outside the try block; the indexing and the addition inside it.
Method1(a, rel, k) ==
    IF ~HasAttr(a.sweepTimesSec) THEN FallThrough
    ELSE IF ~Sized(a.sweepTimesSec) THEN Raised("TypeError")
    ELSE IF ~(Len(a.sweepTimesSec.v) > k) THEN FallThrough
    ELSE IF ~a.sweepTimesSec.v[k + 1].ok THEN FallThrough   \* TypeError, caught
    ELSE Returned(AddScalar(a.sweepTimesSec.v[k + 1].v, rel), "sweepTimesSec")

\* Mutant: the sweep number taken as 1-based ("sweep 4" of the docstring).
Method2_OneBased(a, rel, k) ==
    IF ~HasAttr(a.sweepLengthSec) THEN FallThrough
    ELSE IF a.sweepLengthSec.st = "none" THEN FallThrough
    ELSE Returned(AddScalar((k + 1) * a.sweepLengthSec.v, rel), "sweepLengthSec")

\* Method 2, lines 696-702.
Method2(a, rel, k) ==
    IF ~HasAttr(a.sweepLengthSec) THEN FallThrough
    ELSE IF a.sweepLengthSec.st = "none" THEN FallThrough   \* TypeError, caught
    ELSE Returned(AddScalar(k * a.sweepLengthSec.v, rel), "sweepLengthSec")

\* Method 3, lines 704-710.  AttributeError, TypeError and ZeroDivisionError
\* are all caught.  len(sweepX) / dataRate is a true division; the sample counts
\* drawn are multiples of the data rates drawn, so \div is exact.
Method3(a, rel, k) ==
    IF ~HasAttr(a.sweepX) \/ ~HasAttr(a.dataRate) THEN FallThrough
    ELSE IF ~Sized(a.sweepX) \/ a.dataRate.st = "none" THEN FallThrough
    ELSE IF a.dataRate.v = 0 THEN FallThrough
    ELSE Returned(AddScalar(k * (a.sweepX.v \div a.dataRate.v), rel), "calculated")

\* Mutant: the uniform sweep length is tried before the start-time table.
get_absolute_timing_LengthFirst(m, a, rel, k) ==
    IF m = "csv" THEN Returned(rel, "csv_native")
    ELSE IF a.kind = "None" THEN Returned(rel, "no_abf")
    ELSE LET r2 == Method2(a, rel, k) IN
         IF r2.done THEN r2
         ELSE LET r1 == Method1(a, rel, k) IN
              IF r1.done THEN r1
              ELSE LET r3 == Method3(a, rel, k) IN
                   IF r3.done THEN r3
                   ELSE Returned(rel, "relative_only")

\* Mutant: the missing-ABF test made before the mode test.
get_absolute_timing_AbfFirst(m, a, rel, k) ==
    IF a.kind = "None" THEN Returned(rel, "no_abf")
    ELSE IF m = "csv" THEN Returned(rel, "csv_native")
    ELSE LET r1 == Method1(a, rel, k) IN
         IF r1.done THEN r1
         ELSE LET r2 == Method2(a, rel, k) IN
              IF r2.done THEN r2
              ELSE LET r3 == Method3(a, rel, k) IN
                   IF r3.done THEN r3
                   ELSE Returned(rel, "relative_only")

get_absolute_timing(m, a, rel, k) ==
    IF m = "csv" THEN Returned(rel, "csv_native")
    ELSE IF a.kind = "None" THEN Returned(rel, "no_abf")
    ELSE LET r1 == Method1(a, rel, k) IN
         IF r1.done THEN r1
         ELSE LET r2 == Method2(a, rel, k) IN
              IF r2.done THEN r2
              ELSE LET r3 == Method3(a, rel, k) IN
                   IF r3.done THEN r3
                   ELSE Returned(rel, "relative_only")

(***************************************************************************)
(* scipy.signal.find_peaks(x, prominence=prom, distance=dist), as called on *)
(* lines 1009-1016: local maxima (the middle of a flat top), then the       *)
(* distance selection by decreasing height, then the prominence threshold.  *)
(* An outcome is [raised, peaks, prominences].                              *)
(***************************************************************************)
Negate(x) == [j \in 1..Len(x) |-> 0 - x[j]]

\* 0-based [l, r] is a flat top strictly above both neighbours, inside the array
IsFlatTop(x, l, r) ==
    /\ 1 <= l /\ l <= r /\ r <= Len(x) - 2
    /\ At(x, l - 1) < At(x, l)
    /\ At(x, r + 1) < At(x, r)
    /\ \A i \in l..r : At(x, i) = At(x, l)

LocalMaxima(x) ==
    { m \in 1..(Len(x) - 2) : \E l \in 1..m : \E r \in m..(Len(x) - 2) :
          m = (l + r) \div 2 /\ IsFlatTop(x, l, r) }

\* The peak handled next by the distance selection: the highest one left, the
\* later one on a tie (argsort is stable on arrays this short).
NextByPriority(x, todo) ==
    CHOOSE p \in todo : \A q \in todo :
        At(x, q) < At(x, p) \/ (At(x, q) = At(x, p) /\ q <= p)

RECURSIVE SelectByDistance(_, _, _, _)
SelectByDistance(x, kept, todo, distance) ==
    IF todo = {} THEN kept
    ELSE LET p == NextByPriority(x, todo)
             near == {q \in (kept \cup todo) \ {p} :
                         (IF q > p THEN q - p ELSE p - q) < distance}
         IN  SelectByDistance(x, (kept \cup {p}) \ near, (todo \ {p}) \ near, distance)

\* scipy's peak_prominences with wlen=None: the lowest sample on each side up to
\* the first sample higher than the peak, the higher of the two bases.
Prominence(x, p) ==
    LET n == Len(x)
        lstop == {i \in 0..p : At(x, i) > At(x, p)}
        rstop == {i \in p..(n - 1) : At(x, i) > At(x, p)}
        lo == IF lstop = {} THEN 0 ELSE SetMax(lstop) + 1
        hi == IF rstop = {} THEN n - 1 ELSE SetMin(rstop) - 1
        left_min == SetMin({At(x, i) : i \in lo..p})
        right_min == SetMin({At(x, i) : i \in p..hi})
    IN  At(x, p) - Max2(left_min, right_min)

PeaksOutcome(peaks, prominences) ==
    [raised |-> FALSE, peaks |-> peaks, prominences |-> prominences]
PeaksRaised == [raised |-> TRUE, peaks |-> <<>>, prominences |-> <<>>]

\* the peaks returned with properties["prominences"]
WithProminences(x, peaks) ==
    PeaksOutcome(peaks, [j \in 1..Len(peaks) |-> Prominence(x, peaks[j])])

\* Mutant: the distance selection left out.
find_peaks_NoDistance(x, prom, distance) ==
    IF distance < 1 THEN PeaksRaised
    ELSE WithProminences(x, AscSeq({p \in LocalMaxima(x) : Prominence(x, p) >= prom}))

find_peaks(x, prom, distance) ==
    IF distance < 1 THEN PeaksRaised     \* ValueError: `distance` must be >= 1
    ELSE WithProminences(x,
             AscSeq({p \in SelectByDistance(x, {}, LocalMaxima(x), distance) :
                        Prominence(x, p) >= prom}))

(***************************************************************************)
(* The filter pipeline (lines 944-997).  Units: cutoff in hundredths of a    *)
(* Hz (sb_cut has 2 decimals), notch frequency and Q in tenths (1 decimal).  *)
(* An outcome is [raised, sig].  The guards and the failures are those of    *)
(* the code and of the scipy calls it makes; the numbers scipy's filters     *)
(* return are replaced by integer stand-ins of the same kind (drift removal, *)
(* comb notch, moving average) that depend on the same parameters and keep   *)
(* the length of the input.                                                  *)
(***************************************************************************)
SigOutcome(x) == [raised |-> FALSE, sig |-> x]
SigRaised == [raised |-> TRUE, sig |-> <<>>]

\* floor of the mean of x[a:b], 0 <= a < b <= len(x)
WindowMean(x, a, b) == Sum(Slice(x, a, b)) \div (b - a)

\* stand-in for filtfilt(butter(3, Wn, "highpass"), x): the mean over one
\* half-period of the cutoff on each side is removed
ButterHighpass(x, rate, cutoff) ==
    LET h == (100 * rate) \div (2 * cutoff) IN
    [j \in 1..Len(x) |->
        x[j] - WindowMean(x, Max2(0, j - 1 - h), Min2(Len(x), j + h))]

\* filtfilt's default padlen is 3 * max(len(a), len(b)); it raises ValueError
\* unless the input is longer
HighpassPadlen == 12
NotchPadlen == 9

\* _highpass, lines 945-950.  butter raises ValueError unless 0 < Wn < 1.
highpass(x, rate, cutoff) ==
    LET c == IF 2 * cutoff >= 100 * rate THEN 50 * rate - 10 ELSE cutoff IN
    IF ~(0 < c /\ 2 * c < 100 * rate) THEN SigRaised
    ELSE IF ~(Len(x) > HighpassPadlen) THEN SigRaised
    ELSE SigOutcome(ButterHighpass(x, rate, c))

\* stand-in for filtfilt(iirnotch(w0, Q), x): half of (Q < 30) or a quarter of
\* (Q >= 30) the component that alternates with the notch period is removed
IirNotch(x, rate, freq, quality) ==
    LET h == Max2(1, (10 * rate) \div (2 * freq))
        d == IF quality >= 300 THEN 4 ELSE 2
    IN  [j \in 1..Len(x) |->
            LET k == IF j + h <= Len(x) THEN j + h ELSE j - h IN
            x[j] - ((x[j] - x[k]) \div d)]

\* _notch_filter, lines 953-961
notch_filter(x, rate, freq, quality) ==
    IF 2 * freq >= 10 * rate THEN SigOutcome(x)
    ELSE IF ~(Len(x) > NotchPadlen) THEN SigRaised
    ELSE SigOutcome(IirNotch(x, rate, freq, quality))

\* Mutant: only the samples with a full window are returned.
SavgolFilter_FullWindows(x, window_length) ==
    LET h == window_length \div 2 IN
    [j \in 1..(Len(x) - 2 * h) |-> WindowMean(x, j - 1, j + 2 * h)]

\* stand-in for savgol_filter(x, window_length, polyorder): the centred moving
\* average, the window cut at the ends; polyorder only has to stay below the
\* window length, which min(polyorder, window_length - 1) ensures
SavgolFilter(x, window_length) ==
    LET h == window_length \div 2 IN
    [j \in 1..Len(x) |-> WindowMean(x, Max2(0, j - 1 - h), Min2(Len(x), j + h))]

\* _smooth_signal, lines 963-976.  savgol_filter (mode "interp") raises
\* ValueError when window_length exceeds the size of x.
smooth_signal(x, window_length) ==
    IF Len(x) < window_length THEN SigOutcome(x)
    ELSE LET w == IF window_length % 2 = 0 THEN window_length + 1 ELSE window_length IN
         IF w > Len(x) THEN SigRaised
         ELSE SigOutcome(SavgolFilter(x, w))

\* _process_signal, lines 978-997; u is the record of control values.
\* With self.fs unset the comparison cutoff >= fs / 2 raises TypeError.
process_signal(x, rate, u) ==
    IF ~rate.known THEN SigRaised
    ELSE LET s1 == highpass(x, rate.hz, u.sb_cut) IN
         IF s1.raised THEN s1
         ELSE LET s2 == IF u.chk_notch
                         THEN notch_filter(s1.sig, rate.hz, u.sb_notch_freq, u.sb_notch_q)
                         ELSE s1 IN
              IF s2.raised THEN s2
              ELSE IF u.chk_smooth THEN smooth_signal(s2.sig, u.sb_smooth_window)
                   ELSE s2

(***************************************************************************)
(* PeakApp._detect_peaks (lines 999-1031).  int(dist_ms / 1000 * self.fs)   *)
(* is (dist_ms * fs) \div 1000 for the values drawn.                         *)
(***************************************************************************)
\* Mutant: the peaks are sorted and the prominences left in the order of the
\* concatenation.
SortedUnion_PromsInPlace(pos, neg) ==
    LET all_peaks == pos.peaks \o neg.peaks
        rank(j) == Cardinality({k \in 1..Len(all_peaks) :
                        all_peaks[k] < all_peaks[j] \/ (all_peaks[k] = all_peaks[j] /\ k <= j)})
        at(r) == CHOOSE j \in 1..Len(all_peaks) : rank(j) = r
    IN  PeaksOutcome([r \in 1..Len(all_peaks) |-> all_peaks[at(r)]],
                     pos.prominences \o neg.prominences)

\* np.concatenate([pos, neg]) sorted by np.argsort, each prominence carried
\* along with its peak
SortedUnion(pos, neg) ==
    LET all_peaks == pos.peaks \o neg.peaks
        all_proms == pos.prominences \o neg.prominences
        rank(j) == Cardinality({k \in 1..Len(all_peaks) :
                        all_peaks[k] < all_peaks[j] \/ (all_peaks[k] = all_peaks[j] /\ k <= j)})
        at(r) == CHOOSE j \in 1..Len(all_peaks) : rank(j) = r
    IN  PeaksOutcome([r \in 1..Len(all_peaks) |-> all_peaks[at(r)]],
                     [r \in 1..Len(all_peaks) |-> all_proms[at(r)]])

\* lines 1014-1025: both searches, then the sorted union
BothPolarities(pos, neg) ==
    IF pos.raised \/ neg.raised THEN PeaksRaised ELSE SortedUnion(pos, neg)

\* lines 1027-1031: the width filter on what the search found
WidthFiltered(trace_processed, found, rate, u) ==
    IF found.raised THEN found
    ELSE IF Len(found.peaks) > 0
         THEN PeaksOutcome(filter_peaks_by_width(trace_processed, found.peaks, rate.hz,
                                                 u.sb_min_width, u.sb_max_width),
                           found.prominences)
         ELSE found

\* lines 1004-1016: dist = int(dist_ms / 1000 * self.fs) and the search
SearchPeaks(trace_processed, prom, dist, polarity) ==
    IF polarity = "Positive" THEN find_peaks(trace_processed, prom, dist)
    ELSE IF polarity = "Negative" THEN find_peaks(Negate(trace_processed), prom, dist)
    ELSE BothPolarities(find_peaks(trace_processed, prom, dist),
                        find_peaks(Negate(trace_processed), prom, dist))

detect_peaks(trace_processed, prom, dist_ms, rate, u) ==
    IF ~rate.known THEN PeaksOutcome(<<>>, <<>>)
    ELSE WidthFiltered(trace_processed,
                       SearchPeaks(trace_processed, prom, (dist_ms * rate.hz) \div 1000,
                                   u.cb_polarity),
                       rate, u)

(***************************************************************************)
(* Signals.  Amplitudes of the application's recordings are in thousandths  *)
(* of the recording unit, as is the prominence control.                     *)
(***************************************************************************)
SigNarrow == <<0, 0, 0, 5, 0, 0, 0, 0, 8, 0, 0, 0, 0, 6, 0, 0>>
SigBroad == <<0, 1, 3, 6, 6, 3, 1, 0, 0, 0, 2, 4, 8, 4, 2, 0>>
SigDips == <<0, 0, -4, 0, 0, 3, 3, 3, 0, 0, -6, -2, 0, 0, 1, 0>>
SigRamp == <<0, 1, 2, 3, 4, 5, 6, 7, 8, 9, 10, 11, 12, 13, 14, 15>>

Scale(x, k) == [j \in 1..Len(x) |-> k * x[j]]

(***************************************************************************)
(* Files the user can open.  A CSV file is its column count, the rate its   *)
(* time column states (1 / mean(diff(t))) and its voltage columns; an ABF   *)
(* file is the object pyabf.ABF builds from it.                             *)
(***************************************************************************)
\* 2 channels x 2 sweeps of 16 samples at 200 Hz, one sweep every second;
\* times in ms
RecAbf ==
    [kind |-> "ABF",
     sweepTimesSec |-> Val(<<[ok |-> TRUE, v |-> 0], [ok |-> TRUE, v |-> 1000]>>),
     sweepLengthSec |-> Val(80),
     sweepX |-> Val(16),
     dataRate |-> Val(200),
     channelCount |-> 2,
     sweepCount |-> 2,
     sweepY |-> <<<<Scale(SigDips, 1000), Scale(SigNarrow, 1000)>>,
                  <<Scale(SigBroad, 1000), Scale(SigRamp, 1000)>>>>]

TwoCsv ==
    [name |-> "two.csv", suffix |-> ".csv", columns |-> 4, rate |-> 100,
     data |-> <<Scale(SigNarrow, 1000), Scale(SigBroad, 1000)>>, abf |-> NoAbf]
TinyCsv ==
    [name |-> "tiny.csv", suffix |-> ".csv", columns |-> 2, rate |-> 0,
     data |-> << <<1000>> >>, abf |-> NoAbf]
BadCsv ==
    [name |-> "bad.csv", suffix |-> ".csv", columns |-> 3, rate |-> 100,
     data |-> <<Scale(SigNarrow, 1000)>>, abf |-> NoAbf]
RecAbfFile ==
    [name |-> "rec.abf", suffix |-> ".abf", columns |-> 0, rate |-> 0,
     data |-> <<>>, abf |-> RecAbf]
NotesTxt ==
    [name |-> "notes.txt", suffix |-> ".txt", columns |-> 0, rate |-> 0,
     data |-> <<>>, abf |-> NoAbf]
Files == {TwoCsv, TinyCsv, BadCsv, RecAbfFile, NotesTxt}

(***************************************************************************)
(* PeakApp: the state after __init__ (lines 354-379) and _build_ui (lines   *)
(* 381-561).  Control values: sb_cut in hundredths of a Hz, sb_prom in      *)
(* thousandths, sb_notch_freq and sb_notch_q in tenths, the rest as shown.  *)
(***************************************************************************)
NoFs == [known |-> FALSE, hz |-> 0]
Fs(hz) == [known |-> TRUE, hz |-> hz]
NoCurated == [known |-> FALSE, idx |-> <<>>]
Curated(idx) == [known |-> TRUE, idx |-> idx]
NoCache == [valid |-> FALSE, len |-> 0, fs |-> NoFs, src |-> <<>>]

DefaultUi ==
    [cb_trace |-> -1, cb_trace_count |-> 0, cb_trace_enabled |-> TRUE,
     sb_chan |-> 0, sb_chan_max |-> 99, sb_sweep |-> 0, sb_sweep_max |-> 99,
     sb_enabled |-> FALSE,
     sb_cut |-> 20, sb_prom |-> 50, sb_dist |-> 50,
     sb_min_width |-> 5, sb_max_width |-> 500, cb_polarity |-> "Positive",
     chk_smooth |-> FALSE, sb_smooth_window |-> 5,
     chk_notch |-> FALSE, sb_notch_freq |-> 500, sb_notch_q |-> 300,
     sb_lowF |-> 0, sb_hiF |-> 10, chk_spec |-> FALSE, cb_units |-> "Auto"]

\* self.plot_trace: whether self.scatter is one of its items, the curve drawn
\* and the positions shown by the grey scatter of removed peaks
InitialTracePlot == [scatter |-> TRUE, curve |-> <<>>, removed |-> {}]
ClearedTracePlot == [scatter |-> FALSE, curve |-> <<>>, removed |-> {}]
\* self.plot_power: the band-power curve drawn, if any
NoPowerCurve == [curve |-> FALSE, src |-> <<>>, lowF |-> 0, hiF |-> 0]

NoExport == [done |-> FALSE, outcome |-> "", rows |-> <<>>, written |-> FALSE,
             header |-> FALSE, table_rows |-> 0]
\* a handler run: its field or file and the spots clicked; for a click that
\* repeats the click before it, again holds and base is self.peaks_removed as
\* it was before that first click; entered is the value the user gave the
\* smoothing-window control
Op(op, field, pts) ==
    [op |-> op, field |-> field, pts |-> pts, again |-> FALSE, base |-> {},
     entered |-> 0]
Started == Op("start", "", {})

\* the fields of self the handlers read and write, as one record
App ==
    [mode |-> mode, abf |-> abf, traces |-> traces, fs |-> fs,
     peaks_removed |-> peaks_removed, curated_peaks |-> curated_peaks,
     current_file_path |-> current_file_path, cache |-> cache, ui |-> ui,
     scatter |-> scatter, plot_trace |-> plot_trace, plot_power |-> plot_power,
     recompute |-> "none", runs |-> <<>>]

AppInitial ==
    /\ traces = <<>> /\ fs = NoFs /\ peaks_removed = {} /\ curated_peaks = NoCurated
    /\ current_file_path = "" /\ cache = NoCache /\ ui = DefaultUi
    /\ scatter = {} /\ plot_trace = InitialTracePlot /\ plot_power = NoPowerCurve
    /\ recompute = "none" /\ export_out = NoExport /\ last_op = Started
    /\ prev_removed = {} /\ n_ops = 0 /\ runs = <<>>

(***************************************************************************)
(* PeakApp._get_current_trace (lines 925-942): the voltage array; the time  *)
(* array has the same length.  Any exception gives the empty arrays.        *)
(***************************************************************************)
get_current_trace(S) ==
    IF S.mode = "csv"
    THEN LET idx == Max2(0, Min2(S.ui.cb_trace, Len(S.traces) - 1)) IN
         IF idx < Len(S.traces) THEN At(S.traces, idx) ELSE <<>>     \* IndexError
    ELSE IF S.abf.kind = "None" THEN <<>>
    ELSE IF S.ui.sb_sweep < S.abf.sweepCount /\ S.ui.sb_chan < S.abf.channelCount
         THEN At(At(S.abf.sweepY, S.ui.sb_chan), S.ui.sb_sweep)
         ELSE <<>>                                                    \* setSweep raises

(***************************************************************************)
(* Spectrogram and band power (lines 1054-1090).  A spectrogram is known by *)
(* the signal and the rate it was computed from.                            *)
(***************************************************************************)
\* Mutant: the upper band limit made exclusive.
compute_band_power_BelowHi(f, tt, Sxx, low_f, hi_f) ==
    IF Len(f) = 0 \/ Len(Sxx) = 0 THEN <<>>
    ELSE LET f_mask == [i \in 1..Len(f) |-> f[i] >= low_f /\ f[i] < hi_f]
             rows == BoolIndex(Sxx, f_mask)
         IN  IF Len(rows) = 0 THEN [j \in 1..Len(tt) |-> Q(0)]
             ELSE [j \in 1..Len(tt) |->
                      [num |-> Sum([i \in 1..Len(rows) |-> rows[i][j]]),
                       den |-> Len(rows)]]

\* _compute_band_power (lines 1077-1090): f the frequency bins, tt the time
\* bins, Sxx[i][j] the power of bin i at time j; the mean is the rational
\* num / den
compute_band_power(f, tt, Sxx, low_f, hi_f) ==
    IF Len(f) = 0 \/ Len(Sxx) = 0 THEN <<>>
    ELSE LET f_mask == [i \in 1..Len(f) |-> f[i] >= low_f /\ f[i] <= hi_f]
             rows == BoolIndex(Sxx, f_mask)
         IN  IF Len(rows) = 0 THEN [j \in 1..Len(tt) |-> Q(0)]
             ELSE [j \in 1..Len(tt) |->
                      [num |-> Sum([i \in 1..Len(rows) |-> rows[i][j]]),
                       den |-> Len(rows)]]

\* Mutant: the cached entry is used only for the signal it was computed from.
compute_spectrogram_KeyOnSignal(S, trace_hp) ==
    IF S.cache.valid /\ S.cache.len = Len(trace_hp) /\ S.cache.fs = S.fs
       /\ S.cache.src = trace_hp
    THEN [app |-> S, src |-> S.cache.src]
    ELSE [app |-> [S EXCEPT !.cache = [valid |-> TRUE, len |-> Len(trace_hp),
                                      fs |-> S.fs, src |-> trace_hp]],
          src |-> trace_hp]

\* _compute_spectrogram: the record after the call and the spectrogram returned
compute_spectrogram(S, trace_hp) ==
    IF S.cache.valid /\ S.cache.len = Len(trace_hp) /\ S.cache.fs = S.fs
    THEN [app |-> S, src |-> S.cache.src]
    ELSE [app |-> [S EXCEPT !.cache = [valid |-> TRUE, len |-> Len(trace_hp),
                                      fs |-> S.fs, src |-> trace_hp]],
          src |-> trace_hp]

\* _update_frequency_plots (lines 1255-1291); segments of 4 or more samples
\* give len(tt) > 1 only for signals of 8 samples or more
update_frequency_plots(S, v_hp, lowF, hiF) ==
    LET c == compute_spectrogram(S, v_hp) IN
    IF Len(c.src) >= 8
    THEN [c.app EXCEPT !.plot_power = [curve |-> TRUE, src |-> c.src,
                                       lowF |-> lowF, hiF |-> hiF]]
    ELSE c.app

(***************************************************************************)
(* PeakApp._update_trace_plot (lines 1189-1228)                             *)
(***************************************************************************)
update_trace_plot(S, v_processed, peaks, keep) ==
    LET kept_spots == {i \in 0..(Len(peaks) - 1) : keep[i + 1]}
        removed_spots == {i \in 0..(Len(peaks) - 1) : ~keep[i + 1]}
    IN  [S EXCEPT !.plot_trace = [scatter |-> TRUE, curve |-> v_processed,
                                  removed |-> removed_spots],
                  !.scatter = IF Len(peaks) > 0 THEN kept_spots ELSE S.scatter]

(***************************************************************************)
(* PeakApp._update_plots (lines 1136-1180).  recompute records how the call *)
(* ended.                                                                   *)
(***************************************************************************)
\* Mutant: the except branch leaves the plots alone.
ClearPlots_KeepDisplay(S, how) == [S EXCEPT !.recompute = how]

\* plot_trace.clear() and plot_power.clear(), lines 1152-1153 and 1179-1180
ClearPlots(S, how) ==
    [S EXCEPT !.plot_trace = ClearedTracePlot, !.plot_power = NoPowerCurve,
              !.recompute = how]

\* one _update_plots call as the handlers' bookkeeping sees it: what self held
\* when it ran (the rate, the selection, the smoothing window, the excluded
\* set), the raw trace it read and how it ended
Run(S, v_original, how) ==
    [how |-> how, fs |-> S.fs, window |-> S.ui.sb_smooth_window,
     selection |-> <<S.ui.cb_trace, S.ui.sb_chan, S.ui.sb_sweep>>,
     peaks_removed |-> S.peaks_removed, src |-> v_original]

Logged(S, run) == [S EXCEPT !.runs = Append(@, run)]

KeepMask_OneBased(peaks, removed) == [i \in 1..Len(peaks) |-> i \notin removed]

\* keep = ones_like(peaks); keep[idx] = False for idx in peaks_removed, idx < len
KeepMask(peaks, removed) == [i \in 1..Len(peaks) |-> (i - 1) \notin removed]

update_plots_NoGuard(S0) ==
    CHOOSE done \in {
        LET v_original == get_current_trace(S) IN
        IF Len(v_original) = 0
        THEN Logged(ClearPlots(S, "empty"), Run(S, v_original, "empty"))
        ELSE CHOOSE processed \in {
            IF proc.raised
            THEN Logged(ClearPlots(S, "failed"), Run(S, v_original, "failed"))
            ELSE CHOOSE detected \in {
                IF det.raised
                THEN Logged(ClearPlots(S, "failed"), Run(S, v_original, "failed"))
                ELSE LET keep == KeepMask(det.peaks, S.peaks_removed)
                         S1 == [S EXCEPT !.curated_peaks =
                                             Curated(BoolIndex(det.peaks, keep))]
                         S2 == update_trace_plot(S1, proc.sig, det.peaks, keep)
                         S3 == update_frequency_plots(S2, proc.sig,
                                                      S.ui.sb_lowF, S.ui.sb_hiF)
                     IN  Logged([S3 EXCEPT !.recompute = "ok"],
                                Run(S, v_original, "ok"))
                : det \in {detect_peaks(proc.sig, S.ui.sb_prom, S.ui.sb_dist,
                                        S.fs, S.ui)} } : TRUE
            : proc \in {process_signal(v_original, S.fs, S.ui)} } : TRUE
        : S \in {S0} } : TRUE

\* S, proc and det are bound to their values here, so that each step of the
\* pipeline is computed once per call, as in the code.
update_plots(S0) ==
    CHOOSE done \in {
        IF ~S.fs.known
        THEN Logged([S EXCEPT !.recompute = "no_fs"], Run(S, <<>>, "no_fs"))
        ELSE
        LET v_original == get_current_trace(S) IN
        IF Len(v_original) = 0
        THEN Logged(ClearPlots(S, "empty"), Run(S, v_original, "empty"))
        ELSE CHOOSE processed \in {
            IF proc.raised
            THEN Logged(ClearPlots(S, "failed"), Run(S, v_original, "failed"))
            ELSE CHOOSE detected \in {
                IF det.raised
                THEN Logged(ClearPlots(S, "failed"), Run(S, v_original, "failed"))
                ELSE LET keep == KeepMask(det.peaks, S.peaks_removed)
                         S1 == [S EXCEPT !.curated_peaks =
                                             Curated(BoolIndex(det.peaks, keep))]
                         S2 == update_trace_plot(S1, proc.sig, det.peaks, keep)
                         S3 == update_frequency_plots(S2, proc.sig,
                                                      S.ui.sb_lowF, S.ui.sb_hiF)
                     IN  Logged([S3 EXCEPT !.recompute = "ok"],
                                Run(S, v_original, "ok"))
                : det \in {detect_peaks(proc.sig, S.ui.sb_prom, S.ui.sb_dist,
                                        S.fs, S.ui)} } : TRUE
            : proc \in {process_signal(v_original, S.fs, S.ui)} } : TRUE
        : S \in {S0} } : TRUE

(***************************************************************************)
(* The handlers of the controls (lines 1096-1134)                           *)
(***************************************************************************)
param_changed_KeepRemoved(S) == update_plots(S)

param_changed(S) == update_plots([S EXCEPT !.peaks_removed = {}])

\* Mutant: the recompute runs on the value as entered.
ensure_odd_window_AsEntered(S) == param_changed(S)

\* an even value: setValue(value + 1) emits valueChanged, which runs the handler
\* again on the odd value, and that run alone calls _param_changed
ensure_odd_window(S) ==
    LET value == S.ui.sb_smooth_window IN
    param_changed([S EXCEPT !.ui.sb_smooth_window =
                                  IF value % 2 = 0 THEN value + 1 ELSE value])

reset_peaks_KeepRemoved(S) == update_plots(S)

reset_peaks(S) == update_plots([S EXCEPT !.peaks_removed = {}])

peak_clicked_AddOnly(S, points) ==
    update_plots([S EXCEPT !.peaks_removed = S.peaks_removed \cup points])

\* points: the data of the spots of self.scatter under the cursor
peak_clicked(S, points) ==
    update_plots([S EXCEPT !.peaks_removed =
                      (S.peaks_removed \ points) \cup (points \ S.peaks_removed)])

toggle_spectrogram(S) == update_plots(S)

(***************************************************************************)
(* The controls a load sets programmatically (lines 630-631, 654-661).      *)
(* QSpinBox.setRange clamps the value, setValue changes it, QComboBox.clear *)
(* and addItems move the current index; a call that moves the value or the  *)
(* index emits valueChanged or currentIndexChanged, and the connected       *)
(* _param_changed runs before the load goes on.                             *)
(***************************************************************************)
WidgetCall(call, field, maxfield, v) ==
    [call |-> call, field |-> field, maxfield |-> maxfield, v |-> v]

SpinSetRange(u, field, maxfield, hi) ==
    [u EXCEPT ![maxfield] = hi, ![field] = Min2(u[field], hi)]

SpinSetValue(u, field, v) == [u EXCEPT ![field] = v]

ComboClear(u) == [u EXCEPT !.cb_trace = -1, !.cb_trace_count = 0]

ComboAddItems(u, n) ==
    [u EXCEPT !.cb_trace_count = u.cb_trace_count + n,
              !.cb_trace = IF u.cb_trace = -1 THEN 0 ELSE u.cb_trace]

\* the control values after one call
AfterCall(u, c) ==
    CASE c.call = "setRange" -> SpinSetRange(u, c.field, c.maxfield, c.v)
      [] c.call = "setValue" -> SpinSetValue(u, c.field, c.v)
      [] c.call = "clear" -> ComboClear(u)
      [] c.call = "addItems" -> ComboAddItems(u, c.v)

\* one call and, if it emitted, the handler it triggers
Programmatic(S0, c) ==
    CHOOSE done \in {
        LET S1 == [S EXCEPT !.ui = AfterCall(S.ui, c)] IN
        IF S1.ui[c.field] # S.ui[c.field] THEN param_changed(S1) ELSE S1
        : S \in {S0} } : TRUE

\* the calls of a loader, in the order the loader makes them
RECURSIVE Programmatics(_, _)
Programmatics(S, calls) ==
    IF calls = <<>> THEN S
    ELSE Programmatics(Programmatic(S, Head(calls)), Tail(calls))

(***************************************************************************)
(* Loading (lines 578-667).  A loader returns the record it reached and     *)
(* whether it raised.                                                       *)
(***************************************************************************)
LoadOutcome(S, raised) == [app |-> S, raised |-> raised]

DefaultFs == 1000          \* self.fs = 1000.0, line 641

load_csv(S, file) ==
    IF file.columns < 2 \/ file.columns = 3 THEN LoadOutcome(S, TRUE)    \* ValueError
    ELSE LET n == IF file.columns = 2 THEN 1 ELSE 2
             S1 == [S EXCEPT !.traces = Slice(file.data, 0, n)]
             S3 == Programmatics(S1, <<WidgetCall("clear", "cb_trace", "", 0),
                                        WidgetCall("addItems", "cb_trace", "", n)>>)
             t == At(file.data, 0)
         IN  LoadOutcome([S3 EXCEPT !.ui.cb_trace_enabled = TRUE,
                                    !.ui.sb_enabled = FALSE,
                                    !.fs = IF Len(t) > 1 THEN Fs(file.rate)
                                           ELSE Fs(DefaultFs)],
                         FALSE)

load_abf(S, file) ==
    LET S1 == [S EXCEPT !.abf = file.abf, !.fs = Fs(file.abf.dataRate.v),
                        !.ui.sb_enabled = TRUE]
        S7 == Programmatics(S1,
                  <<WidgetCall("setRange", "sb_chan", "sb_chan_max",
                               file.abf.channelCount - 1),
                    WidgetCall("setValue", "sb_chan", "", 0),
                    WidgetCall("setRange", "sb_sweep", "sb_sweep_max",
                               file.abf.sweepCount - 1),
                    WidgetCall("setValue", "sb_sweep", "", 0),
                    WidgetCall("clear", "cb_trace", "", 0),
                    WidgetCall("addItems", "cb_trace", "", 1)>>)
    IN  LoadOutcome([S7 EXCEPT !.ui.cb_trace_enabled = FALSE], FALSE)

load_file(S, file, pyabf_ok) ==
    LET S0 == [S EXCEPT !.peaks_removed = {}, !.curated_peaks = NoCurated,
                        !.current_file_path = file.name, !.cache = NoCache]
    IN  IF file.suffix = ".csv"
        THEN CHOOSE done \in {
                 IF r.raised THEN r.app ELSE update_plots(r.app)
                 : r \in {load_csv([S0 EXCEPT !.mode = "csv"], file)} } : TRUE
        ELSE IF file.suffix = ".abf"
        THEN IF ~pyabf_ok THEN S0
             ELSE CHOOSE done \in {
                      IF r.raised THEN r.app ELSE update_plots(r.app)
                      : r \in {load_abf([S0 EXCEPT !.mode = "abf"], file)} } : TRUE
        ELSE S0

(***************************************************************************)
(* Export (lines 715-760, 1459-1498, 1500-1629 and 1666-1701).  A row is    *)
(* one index of the columns of peaks_data: the peak's sample index, its     *)
(* times in ms, its amplitude with the unit label, its width in ms and the  *)
(* timing tag, and for an ABF recording the sweep, the channel and the      *)
(* rate.  Sample i lies at i / fs.                                          *)
(***************************************************************************)
NoRows == [raised |-> FALSE, rows |-> <<>>]
RowsRaised == [raised |-> TRUE, rows |-> <<>>]

\* t_relative[self.curated_peaks], line 729
PeakTimes(idx, rate) == [j \in 1..Len(idx) |-> (1000 * idx[j]) \div rate]

NoFields == [k \in {} |-> 0]

\* Mutant: the sweep columns are added for every recording.
SweepColumns_Always(S, current_sweep) ==
    [Sweep_Number |-> current_sweep, Channel_Number |-> S.ui.sb_chan,
     Sampling_Rate_Hz |-> S.fs.hz]

\* lines 755-758
SweepColumns(S, current_sweep) ==
    IF S.mode = "abf"
    THEN [Sweep_Number |-> current_sweep, Channel_Number |-> S.ui.sb_chan,
          Sampling_Rate_Hz |-> S.fs.hz]
    ELSE NoFields

\* lines 745-752 and 755-758: the columns, row by row
PeakRows(idx, times_rel, timing, amplitudes, widths, rate, sweep_columns) ==
    [raised |-> FALSE,
     rows |-> [j \in 1..Len(idx) |->
                 [Peak_Index |-> idx[j],
                  Time_Relative_s |-> times_rel[j],
                  Time_Absolute_s |-> timing.times[j],
                  Amplitude |-> amplitudes.values[j],
                  Units |-> amplitudes.label,
                  Width_ms |-> (1000 * widths[j]) \div rate,
                  Timing_Method |-> timing.tag] @@ sweep_columns]]

\* lines 741-742 and the rows, once the timing is known
TimedRows(S, idx, times_rel, timing, v_processed, current_sweep) ==
    IF timing.raised THEN RowsRaised
    ELSE PeakRows(idx, times_rel, timing,
                  convert_units(calculate_peak_amplitudes(v_processed, idx, S.fs.hz),
                                S.ui.cb_units),
                  calculate_peak_widths(v_processed, idx, S.fs.hz),
                  S.fs.hz, SweepColumns(S, current_sweep))

\* lines 729-742 on the processed signal
MeasuredRows(S, idx, times_rel, v_processed, current_sweep) ==
    TimedRows(S, idx, times_rel,
              get_absolute_timing(S.mode, S.abf, times_rel, current_sweep),
              v_processed, current_sweep)

get_current_peaks_data(S) ==
    IF ~S.curated_peaks.known \/ Len(S.curated_peaks.idx) = 0 THEN NoRows
    ELSE LET v_original == get_current_trace(S)
             idx == S.curated_peaks.idx
         IN  IF Len(v_original) = 0 THEN NoRows
             ELSE CHOOSE data \in {
                  IF proc.raised THEN RowsRaised
                  ELSE IF \E j \in 1..Len(idx) : idx[j] >= Len(v_original)
                  THEN RowsRaised                                    \* IndexError
                  ELSE MeasuredRows(S, idx, PeakTimes(idx, S.fs.hz), proc.sig,
                                    IF S.mode = "abf" THEN S.ui.sb_sweep ELSE 0)
                  : proc \in {process_signal(v_original, S.fs, S.ui)} } : TRUE

\* The class body defines _generate_export_metadata twice; the name is bound to
\* the later definition (line 1666), which takes no argument besides self.
MetadataParameters == 0

\* calling self._generate_export_metadata with nargs arguments
generate_export_metadata(nargs) ==
    IF nargs # MetadataParameters THEN [raised |-> TRUE, header |-> FALSE]   \* TypeError
    ELSE [raised |-> FALSE, header |-> TRUE]

\* _export_csv; fname is what the save dialog returns ("" when cancelled)
export_csv(S, fname) ==
    CHOOSE out \in {
        IF peaks_data.raised
        THEN [NoExport EXCEPT !.done = TRUE, !.outcome = "raised"]
        ELSE IF Len(peaks_data.rows) = 0
        THEN [NoExport EXCEPT !.done = TRUE, !.outcome = "no_peaks"]
        ELSE IF fname = ""
        THEN [NoExport EXCEPT !.done = TRUE, !.outcome = "cancelled",
                              !.rows = peaks_data.rows]
        ELSE LET metadata == generate_export_metadata(1) IN
             IF metadata.raised
             THEN [NoExport EXCEPT !.done = TRUE, !.outcome = "export_error",
                                   !.rows = peaks_data.rows]
             ELSE [done |-> TRUE, outcome |-> "exported", rows |-> peaks_data.rows,
                   written |-> TRUE, header |-> metadata.header,
                   table_rows |-> Len(peaks_data.rows)]
        : peaks_data \in {get_current_peaks_data(S)} } : TRUE

(***************************************************************************)
(* Inputs of the width filter, and its specification.                      *)
(***************************************************************************)
WidthSignals == {SigNarrow, SigBroad, SigDips, SigRamp}

\* candidate arrays: ascending sample indices, as detection produces them
CandidateArrays(n) ==
    { AscSeq(S) : S \in { T \in SUBSET (0..(n - 1)) : Cardinality(T) <= MaxCandidates } }

NoWidthResult == [done |-> FALSE, peaks |-> <<>>]

WidthIdle ==
    /\ w_sig = <<>> /\ w_peaks = <<>> /\ w_fs = 0 /\ w_min = 0 /\ w_max = 0
    /\ w_result = NoWidthResult

TimingIdle == t_rel = <<>> /\ t_sweep = 0 /\ t_result = NoResult

AppIdle == AppInitial /\ pyabf_installed = TRUE

\* no helper call set up
NoCall == [fn |-> "none"]
NoPureResult == [done |-> FALSE]
PureIdle == p_call = NoCall /\ p_result = NoPureResult

InitWidth ==
    /\ mode = "csv" /\ abf = NoAbf /\ TimingIdle /\ AppIdle /\ PureIdle
    /\ w_sig \in WidthSignals
    /\ w_peaks \in CandidateArrays(Len(w_sig))
    /\ w_fs \in {100, 200}
    /\ w_min \in {5, 10, 20}
    /\ w_max \in {10, 20, 500}
    /\ w_result = NoWidthResult

WidthCall ==
    /\ ~w_result.done
    /\ w_result' = [done |-> TRUE,
                    peaks |-> filter_peaks_by_width(w_sig, w_peaks, w_fs, w_min, w_max)]
    /\ UNCHANGED <<mode, abf, timingVars, w_sig, w_peaks, w_fs, w_min, w_max, appVars,
                   pureVars>>

NextWidth == WidthCall

SpecWidth == InitWidth /\ [][NextWidth]_vars

(***************************************************************************)
(* Inputs of the timing function.                                          *)
(***************************************************************************)
\* Entry i (0-based) of a start-time table: usable entries hold a start time that
\* is not a multiple of any sweep length drawn, unusable ones hold None.
TableEntry(i, usable) == [ok |-> usable, v |-> IF usable THEN 31 * i + 1 ELSE 0]

Tables ==
    UNION { { [i \in 1..n |-> TableEntry(i - 1, u[i])] : u \in [1..n -> BOOLEAN] }
            : n \in 0..MaxTableLen }

SweepTimesAttrs == {Missing, NoneAttr} \cup { Val(t) : t \in Tables }
SweepLengthAttrs == {Missing, NoneAttr, Val(30)}
SweepXAttrs == {Missing, NoneAttr, Val(3000), Val(6000)}
DataRateAttrs == {Missing, NoneAttr, Val(0), Val(100)}
RelTimes == { <<7>>, <<2, 7>> }

TimingAbfs ==
    { [kind |-> "ABF", sweepTimesSec |-> st, sweepLengthSec |-> sl,
       sweepX |-> sx, dataRate |-> dr]
      : st \in SweepTimesAttrs, sl \in SweepLengthAttrs,
        sx \in SweepXAttrs, dr \in DataRateAttrs }

InitTiming ==
    /\ mode \in {"csv", "abf"}
    /\ abf \in {NoAbf} \cup TimingAbfs     \* a CSV load leaves self.abf as it was
    /\ t_rel \in RelTimes
    /\ t_sweep \in 0..MaxSweepNum
    /\ t_result = NoResult
    /\ WidthIdle /\ AppIdle /\ PureIdle

TimingCall ==
    /\ ~t_result.done
    /\ t_result' = get_absolute_timing(mode, abf, t_rel, t_sweep)
    /\ UNCHANGED <<mode, abf, t_rel, t_sweep, widthVars, appVars, pureVars>>

NextTiming == TimingCall

SpecTiming == InitTiming /\ [][NextTiming]_vars

(***************************************************************************)
(* Calls of the helpers that depend on their arguments and on self.fs and   *)
(* the control values only: _process_signal, _convert_units,                *)
(* _compute_band_power, _detect_peaks, _smooth_signal and                   *)
(* _calculate_peak_amplitudes.                                              *)
(***************************************************************************)
\* a plateau with a dip that stays above the baseline, and a baseline-level top
\* between two dips
SigNotch == <<0, 0, 0, 6, 6, 4, 6, 6, 0, 0, 0, 0, 0, 0, 0, 0>>
SigShelf == <<0, 0, 0, 0, -3, 0, -3, 0, 0, 0, 0, 0, 0, 0, 0, 0>>

\* raw traces: the first n samples of a recording
RawTraces == { Slice(x, 0, n) : x \in WidthSignals, n \in 1..MaxTraceLen }

\* the control values a processing configuration sets; the smoothing window is
\* odd once _ensure_odd_window has run
ProcessingConfigs ==
    { [DefaultUi EXCEPT !.sb_cut = c, !.chk_notch = n, !.chk_smooth = sm,
                        !.sb_smooth_window = w]
      : c \in {20, 1000}, n \in BOOLEAN, sm \in BOOLEAN, w \in {3, 5, 13, 15} }

ProcessCalls ==
    { [fn |-> "process_signal", x |-> x, rate |-> Fs(r), u |-> u]
      : x \in RawTraces, r \in {20, 100, 200}, u \in ProcessingConfigs }

\* amplitude arrays, in thousandths
AmplitudeArrays ==
    { <<>>, <<1500000, -1200000>>, <<5000, -3000>>, <<500, -200>>,
      <<1000000, -3000>>, <<1000001>>, <<-1500000, 2000>>,
      <<10000, -2000>>, <<10001>>, <<-300000, 20>>, <<11>>, <<10>>, <<5, -3>> }

ConvertCalls ==
    { [fn |-> "convert_units", values |-> [j \in 1..Len(a) |-> Q(a[j])], to_unit |-> t]
      : a \in AmplitudeArrays, t \in {"Auto", "mV", "uV", "V"} }

\* spectrograms: the bins of a 4-sample segment at 100 Hz and at 200 Hz with up
\* to MaxTimeBins time bins, and the empty one returned while self.fs is unset
Spectrograms ==
    UNION { { [f |-> f, tt |-> [j \in 1..n |-> j], Sxx |-> Sxx]
              : Sxx \in [1..3 -> [1..n -> {1, 4}]] }
            : f \in { <<0, 25, 50>>, <<0, 50, 100>> }, n \in 1..MaxTimeBins }
        \cup { [f |-> <<>>, tt |-> <<>>, Sxx |-> << <<>> >>] }

BandPowerCalls ==
    { [fn |-> "compute_band_power", f |-> sp.f, tt |-> sp.tt, Sxx |-> sp.Sxx,
       low_f |-> lo, hi_f |-> hi]
      : sp \in Spectrograms, lo \in {0, 25, 26, 60, 200}, hi \in {10, 25, 50, 500} }

DetectionConfigs ==
    { [DefaultUi EXCEPT !.cb_polarity = pol, !.sb_min_width = mn, !.sb_prom = pr]
      : pol \in {"Positive", "Negative", "Both"}, mn \in {1, 5, 20}, pr \in {1, 4} }

DetectCalls ==
    { [fn |-> "detect_peaks", x |-> x, rate |-> Fs(r), u |-> u]
      : x \in WidthSignals \cup {SigNotch, SigShelf}, r \in {100, 200},
        u \in DetectionConfigs }

\* the requested smoothing windows, even and odd, from the control's minimum
SmoothWindows == {3, 4, 5, 6, 7, 8, 13, 14}

SmoothCalls ==
    { [fn |-> "smooth_signal", x |-> x, window_length |-> w]
      : x \in RawTraces, w \in SmoothWindows }

\* a drifting trace of 24 samples with one peak, long enough for the baseline
\* windows of a peak to differ with the window length
SigLong ==
    <<0, 1, 2, 3, 4, 5, 6, 7, 8, 9, 10, 11, 12, 13, 14, 15, 40, 17, 18, 19, 20, 21, 22, 23>>

\* measured signals: the last has no sample outside the guard distance of a
\* peak in its middle
MeasuredSignals == {SigLong, SigBroad, Slice(SigBroad, 0, 8)}

AmplitudeCalls ==
    { [fn |-> "calculate_peak_amplitudes", x |-> x, peak_indices |-> idx, hz |-> r]
      : x \in MeasuredSignals, idx \in CandidateArrays(8) \cup {<<16>>, <<12, 16>>},
        r \in {100, 200, 400} }

PureResult(out) == [done |-> TRUE, out |-> out]

InitPure ==
    /\ mode = "csv" /\ abf = NoAbf /\ TimingIdle /\ WidthIdle /\ AppIdle
    /\ p_call \in ProcessCalls \cup ConvertCalls \cup BandPowerCalls \cup DetectCalls
                  \cup SmoothCalls
                  \cup { c \in AmplitudeCalls :
                            \A j \in 1..Len(c.peak_indices) : c.peak_indices[j] < Len(c.x) }
    /\ p_result = NoPureResult

ProcessCall ==
    /\ p_call.fn = "process_signal" /\ ~p_result.done
    /\ p_result' = PureResult(process_signal(p_call.x, p_call.rate, p_call.u))
    /\ UNCHANGED <<mode, abf, timingVars, widthVars, appVars, p_call>>

ConvertCall ==
    /\ p_call.fn = "convert_units" /\ ~p_result.done
    /\ p_result' = PureResult(convert_units(p_call.values, p_call.to_unit))
    /\ UNCHANGED <<mode, abf, timingVars, widthVars, appVars, p_call>>

BandPowerCall ==
    /\ p_call.fn = "compute_band_power" /\ ~p_result.done
    /\ p_result' = PureResult(compute_band_power(p_call.f, p_call.tt, p_call.Sxx,
                                                 p_call.low_f, p_call.hi_f))
    /\ UNCHANGED <<mode, abf, timingVars, widthVars, appVars, p_call>>

DetectCall ==
    /\ p_call.fn = "detect_peaks" /\ ~p_result.done
    /\ p_result' = PureResult(detect_peaks(p_call.x, p_call.u.sb_prom, p_call.u.sb_dist,
                                           p_call.rate, p_call.u))
    /\ UNCHANGED <<mode, abf, timingVars, widthVars, appVars, p_call>>

SmoothCall ==
    /\ p_call.fn = "smooth_signal" /\ ~p_result.done
    /\ p_result' = PureResult(smooth_signal(p_call.x, p_call.window_length))
    /\ UNCHANGED <<mode, abf, timingVars, widthVars, appVars, p_call>>

AmplitudeCall ==
    /\ p_call.fn = "calculate_peak_amplitudes" /\ ~p_result.done
    /\ p_result' = PureResult(calculate_peak_amplitudes(p_call.x, p_call.peak_indices,
                                                        p_call.hz))
    /\ UNCHANGED <<mode, abf, timingVars, widthVars, appVars, p_call>>

NextPure ==
    \/ ProcessCall
    \/ ConvertCall
    \/ BandPowerCall
    \/ DetectCall
    \/ SmoothCall
    \/ AmplitudeCall

SpecPure == InitPure /\ [][NextPure]_vars

(***************************************************************************)
(* The application as a state machine: one action per user operation.      *)
(***************************************************************************)
Commit(S) ==
    /\ mode' = S.mode /\ abf' = S.abf /\ traces' = S.traces /\ fs' = S.fs
    /\ peaks_removed' = S.peaks_removed /\ curated_peaks' = S.curated_peaks
    /\ current_file_path' = S.current_file_path /\ cache' = S.cache /\ ui' = S.ui
    /\ scatter' = S.scatter /\ plot_trace' = S.plot_trace
    /\ plot_power' = S.plot_power /\ recompute' = S.recompute
    /\ runs' = S.runs

Record(op) ==
    /\ last_op' = op
    /\ prev_removed' = peaks_removed
    /\ export_out' = NoExport
    /\ UNCHANGED <<timingVars, widthVars, pureVars, pyabf_installed>>

\* controls connected to _param_changed that the user can reach (chk_notch is
\* created at lines 473-474 but never added to a layout)
ParamFields ==
    {"cb_trace", "sb_chan", "sb_sweep", "sb_cut", "sb_prom", "sb_dist",
     "sb_min_width", "sb_max_width", "cb_polarity", "chk_smooth",
     "sb_notch_freq", "sb_notch_q"}
\* controls connected to _update_plots itself
DisplayFields == {"sb_lowF", "sb_hiF", "cb_units"}

\* the values the user gives a control, within its range
UserValues(field) ==
    CASE field = "cb_trace" ->
            IF ui.cb_trace_enabled THEN 0..(ui.cb_trace_count - 1) ELSE {}
      [] field = "sb_chan" -> IF ui.sb_enabled THEN 0..ui.sb_chan_max ELSE {}
      [] field = "sb_sweep" -> IF ui.sb_enabled THEN 0..ui.sb_sweep_max ELSE {}
      [] field = "sb_cut" -> {20, 1000}
      [] field = "sb_prom" -> {50, 9000}
      [] field = "sb_dist" -> {50, 5, 100}
      [] field = "sb_min_width" -> {5, 30}
      [] field = "sb_max_width" -> {500, 10}
      [] field = "cb_polarity" -> {"Positive", "Negative", "Both"}
      [] field = "chk_smooth" -> BOOLEAN
      [] field = "sb_notch_freq" -> {500, 600}
      [] field = "sb_notch_q" -> {300, 100}
      [] field = "sb_smooth_window" -> {5, 6, 7, 500}
      [] field = "sb_lowF" -> {0, 30}
      [] field = "sb_hiF" -> {10, 60}
      [] field = "cb_units" -> {"Auto", "mV", "V"}

\* the user opens a file
LoadFile ==
    \E file \in Files :
        /\ n_ops < MaxOps
        /\ n_ops' = n_ops + 1
        /\ \E S \in {load_file(App, file, pyabf_installed)} : Commit(S)
        /\ Record(Op("load", file.name, {}))

\* the user changes a control connected to _param_changed
ChangeParam ==
    \E field \in ParamFields : \E v \in UserValues(field) :
        /\ n_ops < MaxOps
        /\ v # ui[field]
        /\ n_ops' = n_ops + 1
        /\ \E S \in {param_changed([App EXCEPT !.ui[field] = v])} : Commit(S)
        /\ Record(Op("param", field, {}))

\* the user changes the smoothing window
ChangeSmoothWindow ==
    \E v \in UserValues("sb_smooth_window") :
        /\ n_ops < MaxOps
        /\ v # ui.sb_smooth_window
        /\ n_ops' = n_ops + 1
        /\ \E S \in {ensure_odd_window([App EXCEPT !.ui.sb_smooth_window = v])} : Commit(S)
        /\ Record([Op("param", "sb_smooth_window", {}) EXCEPT !.entered = v])

\* the user changes the band limits or the display units
ChangeDisplay ==
    \E field \in DisplayFields : \E v \in UserValues(field) :
        /\ n_ops < MaxOps
        /\ v # ui[field]
        /\ n_ops' = n_ops + 1
        /\ \E S \in {update_plots([App EXCEPT !.ui[field] = v])} : Commit(S)
        /\ Record(Op("display", field, {}))

ToggleSpectrogram ==
    /\ n_ops < MaxOps
    /\ n_ops' = n_ops + 1
    /\ \E S \in {toggle_spectrogram([App EXCEPT !.ui.chk_spec = ~ui.chk_spec])} : Commit(S)
    /\ Record(Op("display", "chk_spec", {}))

\* the user presses "Reset Peaks"
ResetPeaks ==
    /\ \E S \in {reset_peaks(App)} : Commit(S)
    /\ Record(Op("reset", "", {}))
    /\ UNCHANGED n_ops

\* the user clicks on spots of self.scatter, which must be shown
ClickPeaks ==
    \E points \in SUBSET scatter :
        /\ plot_trace.scatter
        /\ points # {}
        /\ Cardinality(points) <= MaxClickPoints
        /\ \E S \in {peak_clicked(App, points)} : Commit(S)
        /\ Record(IF last_op.op = "click" /\ last_op.pts = points
                  THEN [Op("click", "", points) EXCEPT !.again = TRUE,
                                                       !.base = prev_removed]
                  ELSE Op("click", "", points))
        /\ UNCHANGED n_ops

\* the user presses "Export" and names a file or cancels the dialog
ExportCsv ==
    \E fname \in {"", "out.csv"} :
        /\ export_out' = export_csv(App, fname)
        /\ last_op' = Op("export", fname, {})
        /\ prev_removed' = peaks_removed
        /\ recompute' = "none"
        /\ runs' = <<>>
        /\ UNCHANGED <<mode, abf, traces, fs, peaks_removed, curated_peaks,
                       current_file_path, cache, ui, scatter, plot_trace, plot_power,
                       pyabf_installed, n_ops, timingVars, widthVars, pureVars>>

Init ==
    /\ mode = "csv" /\ abf = NoAbf
    /\ pyabf_installed \in BOOLEAN
    /\ AppInitial
    /\ TimingIdle /\ WidthIdle /\ PureIdle

Next ==
    \/ LoadFile
    \/ ChangeParam
    \/ ChangeSmoothWindow
    \/ ChangeDisplay
    \/ ToggleSpectrogram
    \/ ResetPeaks
    \/ ClickPeaks
    \/ ExportCsv

Spec == Init /\ [][Next]_vars

(***************************************************************************)
(* Claims about curation, export and the sampling rate, checked under Spec. *)
(***************************************************************************)
\* the outcome of detection on the current selection under the current controls
Candidates ==
    LET proc == process_signal(get_current_trace(App), fs, ui) IN
    IF proc.raised THEN PeaksRaised
    ELSE detect_peaks(proc.sig, ui.sb_prom, ui.sb_dist, fs, ui)

\* the candidates at the positions outside the set, in their order
Without(cands, excluded) ==
    LET kept == AscSeq({i \in 0..(Len(cands) - 1) : i \notin excluded})
    IN  [k \in 1..Len(kept) |-> At(cands, kept[k])]

Ascending(idx) == \A j \in 1..Len(idx) : \A k \in 1..Len(idx) : j < k => idx[j] < idx[k]

C2_CuratedIsCandidatesMinusExcluded ==
    /\ (last_op.op \in {"click", "reset"} /\ recompute = "ok") =>
          /\ ~Candidates.raised
          /\ curated_peaks = Curated(Without(Candidates.peaks, peaks_removed))
          /\ Ascending(curated_peaks.idx)
    /\ last_op.op = "reset" =>
          /\ peaks_removed = {}
          /\ recompute = "ok" => curated_peaks = Curated(Candidates.peaks)

\* C2 witness: a click has excluded some but not all of several candidates.
C2_Witness ==
    /\ last_op.op = "click"
    /\ recompute = "ok"
    /\ peaks_removed # {}
    /\ Len(curated_peaks.idx) >= 1
    /\ Len(curated_peaks.idx) < Len(Candidates.peaks)

\* C3: a click on the same spots right after a click on them leaves the excluded
\* set as it was before the first click, and the curated set is again the
\* candidates without that set.
C3_ToggleTwiceRestores ==
    (last_op.op = "click" /\ last_op.again) =>
        /\ peaks_removed = last_op.base
        /\ recompute = "ok" =>
              curated_peaks = Curated(Without(Candidates.peaks, last_op.base))

\* C3 witness: the same spot has been clicked twice in a row while another
\* position was excluded.
C3_Witness ==
    /\ last_op.op = "click"
    /\ last_op.again
    /\ last_op.pts # {}
    /\ last_op.base # {}
    /\ recompute = "ok"

\* C4 (as claimed): an export with a non-empty curated set and a chosen file
\* name writes a file with the metadata header and one table row per curated
\* peak.
C4_ExportWritesFile ==
    (last_op.op = "export" /\ last_op.field # "" /\ export_out.done
       /\ curated_peaks.known /\ Len(curated_peaks.idx) > 0) =>
        /\ export_out.written
        /\ export_out.header
        /\ export_out.table_rows = Len(curated_peaks.idx)

\* the rates the recordings state: 1 / mean(diff(t)) of a CSV with two or more
\* samples, dataRate of an ABF
StatedRates ==
    { f.rate : f \in { g \in Files : g.suffix = ".csv" /\ g.columns # 3
                                      /\ Len(g.data[1]) > 1 } }
        \cup { f.abf.dataRate.v : f \in { g \in Files : g.suffix = ".abf" } }

\* detection called with the sampling rate unset
DetectWithoutFs ==
    detect_peaks(get_current_trace(App), ui.sb_prom, ui.sb_dist, NoFs, ui)

C14_FailedRecomputeKeepsDisplay ==
    [][recompute' = "failed" =>
          /\ plot_trace' = plot_trace
          /\ scatter' = scatter
          /\ plot_power' = plot_power]_vars

\* C14 (amended): a failed recompute is caught inside _update_plots, and both
\* the trace plot, with its peak markers, and the band-power plot are cleared.
C14_FailedRecomputeClearsPlots ==
    recompute = "failed" =>
        /\ plot_trace = ClearedTracePlot
        /\ ~plot_trace.scatter
        /\ plot_power = NoPowerCurve

\* C14 witness: a control change fails to recompute after an earlier recompute
\* had drawn the trace and its peaks.
C14_Witness ==
    /\ last_op.op = "param"
    /\ recompute = "failed"
    /\ curated_peaks.known /\ Len(curated_peaks.idx) > 0
    /\ plot_trace = ClearedTracePlot

\* the columns every row has, and those of a segmented recording
RowColumns ==
    {"Peak_Index", "Time_Relative_s", "Time_Absolute_s", "Amplitude", "Units",
     "Width_ms", "Timing_Method"}
SegmentColumns == {"Sweep_Number", "Channel_Number", "Sampling_Rate_Hz"}

\* C18: the rows handed to an export are one per curated peak, in the order of
\* the curated set, each with the peak's index, its relative and absolute
\* time, its amplitude with a unit label, its width in ms and the timing tag;
\* the sweep, channel and rate columns are there exactly for an ABF recording;
\* without a curated peak there is no row.
C18_ExportRowsPerCuratedPeak ==
    (last_op.op = "export" /\ export_out.done) =>
        /\ export_out.outcome # "raised"
        /\ Len(export_out.rows) =
              IF curated_peaks.known THEN Len(curated_peaks.idx) ELSE 0
        /\ \A j \in 1..Len(export_out.rows) :
              LET row == export_out.rows[j] IN
              /\ DOMAIN row = RowColumns \cup (IF mode = "abf" THEN SegmentColumns ELSE {})
              /\ row.Peak_Index = curated_peaks.idx[j]
              /\ row.Time_Relative_s * fs.hz = 1000 * row.Peak_Index
              /\ row.Time_Absolute_s >= row.Time_Relative_s
              /\ row.Units \in {"mV", "uV", "V"}
              /\ row.Width_ms >= 0
              /\ row.Timing_Method \in {"csv_native", "sweepTimesSec"}
              /\ mode = "abf" =>
                    /\ row.Sweep_Number = ui.sb_sweep
                    /\ row.Channel_Number = ui.sb_chan
                    /\ row.Sampling_Rate_Hz = fs.hz
                    /\ row.Timing_Method = "sweepTimesSec"
                    /\ row.Time_Absolute_s = 1000 * ui.sb_sweep + row.Time_Relative_s

\* C18 witness: a row for a curated peak of the second sweep of an ABF
\* recording, placed one sweep start after its relative time.
C18_Witness ==
    /\ last_op.op = "export" /\ export_out.done
    /\ mode = "abf" /\ ui.sb_sweep = 1
    /\ Len(export_out.rows) >= 1
    /\ export_out.rows[1].Sweep_Number = 1
    /\ export_out.rows[1].Time_Absolute_s = 1000 + export_out.rows[1].Time_Relative_s

\* the last handler was a load that failed: a CSV of three columns, a suffix
\* that is neither .csv nor .abf, or an ABF file without pyabf
FailedLoad ==
    /\ last_op.op = "load"
    /\ \/ last_op.field \in {"bad.csv", "notes.txt"}
       \/ last_op.field = "rec.abf" /\ ~pyabf_installed

\* C15 (as claimed): a failed load leaves the recording mode, the traces, fs,
\* the excluded set, the curated set, the current file path and the spectrogram
\* cache as they were.
C15_FailedLoadKeepsState ==
    [][(n_ops' = n_ops + 1 /\ FailedLoad') =>
          UNCHANGED <<mode, abf, traces, fs, peaks_removed, curated_peaks,
                      current_file_path, cache>>]_vars

\* the working signal now drawn is not the one the cached spectrogram, and the
\* band power drawn from it, were computed from
StaleSpectrogram ==
    /\ recompute = "ok"
    /\ cache.valid
    /\ cache.src # plot_trace.curve
    /\ plot_power.curve /\ plot_power.src = cache.src

\* C16: after every recompute that went through the cache entry carries the
\* length of the working signal and fs, so a call with another length or fs has
\* replaced it; and a recompute whose working signal has the length and fs of
\* the entry leaves the entry as it is and draws from it, also when the working
\* signal is another one.
C16_SpectrogramKeyedOnLenAndFs ==
    /\ [](recompute = "ok" =>
             /\ cache.valid
             /\ cache.len = Len(plot_trace.curve)
             /\ cache.fs = fs)
    /\ [][(/\ last_op'.op \in {"param", "display", "click", "reset"}
           /\ recompute' = "ok"
           /\ cache.valid
           /\ cache.len = Len(plot_trace'.curve)
           /\ cache.fs = fs') =>
              /\ cache' = cache
              /\ plot_power'.curve => plot_power'.src = cache.src]_vars

\* C16 witness: a control change has altered the working signal and the band
\* power is still drawn from the spectrogram of the earlier one.
C16_Witness ==
    /\ last_op.op = "param"
    /\ StaleSpectrogram

\* C19 (as claimed): whenever there is a curated set, it is the candidates
\* detected on the selected trace under the current controls without the
\* excluded positions, and the rows of an export are made from that set.
C19_CuratedAlwaysCurrent ==
    /\ curated_peaks.known =>
          /\ ~Candidates.raised
          /\ curated_peaks = Curated(Without(Candidates.peaks, peaks_removed))
    /\ (last_op.op = "export" /\ Len(export_out.rows) > 0) =>
          /\ ~Candidates.raised
          /\ Len(export_out.rows) = Len(Without(Candidates.peaks, peaks_removed))

(***************************************************************************)
(* Claims about the timing reconstruction, checked under SpecTiming.       *)
(***************************************************************************)
\* A timing call on a segmented recording has been made and has returned.
SegmentedReturned ==
    t_result.done /\ ~t_result.raised /\ mode = "abf" /\ abf.kind = "ABF"

\* What the recording offers to each method, read off the inputs.
TableHasEntry ==
    /\ abf.sweepTimesSec.st = "val"
    /\ Len(abf.sweepTimesSec.v) > t_sweep
    /\ abf.sweepTimesSec.v[t_sweep + 1].ok
LengthUsable == abf.sweepLengthSec.st = "val"
CountUsable ==
    /\ abf.sweepX.st = "val"
    /\ abf.dataRate.st = "val"
    /\ abf.dataRate.v # 0

Shifted(start) == [i \in 1..Len(t_rel) |-> start + t_rel[i]]
ByTable == Shifted(abf.sweepTimesSec.v[t_sweep + 1].v)
ByLength == Shifted(t_sweep * abf.sweepLengthSec.v)
ByCount == Shifted(t_sweep * (abf.sweepX.v \div abf.dataRate.v))

\* C5: on a segmented recording the methods are used in strict priority order
\* (start-time table, then sweep length, then sample count / rate), the first
\* usable one wins even when the later ones are usable too, and the tag returned
\* names the method whose formula produced the times.
C5_TimingPriorityOrder ==
    SegmentedReturned =>
        /\ TableHasEntry =>
              t_result.tag = "sweepTimesSec" /\ t_result.times = ByTable
        /\ (~TableHasEntry /\ LengthUsable) =>
              t_result.tag = "sweepLengthSec" /\ t_result.times = ByLength
        /\ (~TableHasEntry /\ ~LengthUsable /\ CountUsable) =>
              t_result.tag = "calculated" /\ t_result.times = ByCount
        /\ t_result.tag = "sweepTimesSec" => TableHasEntry
        /\ t_result.tag = "sweepLengthSec" => ~TableHasEntry /\ LengthUsable
        /\ t_result.tag = "calculated" =>
              ~TableHasEntry /\ ~LengthUsable /\ CountUsable

\* C5 witness: the table wins although sweep length and sample count are usable.
C5_Witness ==
    /\ SegmentedReturned /\ TableHasEntry /\ LengthUsable /\ CountUsable
    /\ t_sweep > 0
    /\ t_result.tag = "sweepTimesSec"

\* C6 (as claimed): no failure of a method leaves the timing function, and
\* "relative_only" is returned only when all three methods have failed.
C6_NoFailurePropagates ==
    (t_result.done /\ mode = "abf" /\ abf.kind = "ABF") =>
        /\ ~t_result.raised
        /\ t_result.tag = "relative_only" =>
              ~TableHasEntry /\ ~LengthUsable /\ ~CountUsable

\* The recording has uniform 30 s sweeps: stated by sweepLengthSec, or, when that
\* attribute is unusable, by the sample count and the data rate.
Uniform30 ==
    \/ LengthUsable /\ abf.sweepLengthSec.v = 30
    \/ ~LengthUsable /\ CountUsable /\ abf.sweepX.v = 30 * abf.dataRate.v

\* The start-time table holds no entry for sweep index 3.
NoEntryFor3 ==
    \/ abf.sweepTimesSec.st = "missing"
    \/ abf.sweepTimesSec.st = "val" /\ Len(abf.sweepTimesSec.v) <= 3

\* C7: with uniform 30 s sweeps and no start-time entry for sweep index 3, a peak
\* at 7 s in sweep index 3 is placed at 97 s by the sweep-length or the calculated
\* method.
C7_Peak7InSweep3Is97 ==
    (t_result.done /\ mode = "abf" /\ abf.kind = "ABF" /\ t_sweep = 3
       /\ t_rel = <<7>> /\ Uniform30 /\ NoEntryFor3) =>
        /\ ~t_result.raised
        /\ t_result.times = <<97>>
        /\ t_result.tag \in {"sweepLengthSec", "calculated"}

\* C7 witness: the case resolved by the calculated method, below a 3-entry table.
C7_Witness ==
    /\ t_result.done /\ mode = "abf" /\ abf.kind = "ABF" /\ t_sweep = 3
    /\ t_rel = <<7>> /\ Uniform30
    /\ abf.sweepTimesSec.st = "val" /\ Len(abf.sweepTimesSec.v) = 3
    /\ t_result.tag = "calculated" /\ t_result.times = <<97>>

\* C8 (as claimed): a flat-file recording gets its times back with tag "native".
C8_TagIsNative ==
    (t_result.done /\ mode = "csv") =>
        t_result.times = t_rel /\ t_result.tag = "native"

\* C8 (amended): a flat-file recording gets its relative times back unchanged,
\* whatever the sweep index and whatever ABF object is left in memory, and the tag
\* is "csv_native".
C8_CsvNativeUnchanged ==
    (t_result.done /\ mode = "csv") =>
        /\ ~t_result.raised
        /\ t_result.times = t_rel
        /\ t_result.tag = "csv_native"

\* C8 witness: a CSV-mode call with a non-zero sweep index and a stale ABF object.
C8_Witness ==
    /\ t_result.done /\ mode = "csv" /\ t_sweep > 0 /\ abf.kind = "ABF"
    /\ TableHasEntry
    /\ t_result.times = t_rel

(***************************************************************************)
(* Claims about the width filter, checked under SpecWidth.                 *)
(***************************************************************************)
\* min_width_s <= width <= max_width_s for a width of w samples at w_fs Hz
InWidthWindow(w) == w_min * w_fs <= 1000 * w /\ 1000 * w <= w_max * w_fs

RecomputedWidth(p) == calculate_peak_widths(w_sig, <<p>>, w_fs)[1]

IsKept(p) == InWidthWindow(RecomputedWidth(p))

\* C9: the width filter returns exactly the candidates whose FWHM lies in
\* [min_width_s, max_width_s], both bounds included, in their input order, and
\* the recomputed FWHM of a returned candidate is never outside that window.
C9_WidthFilterExact ==
    w_result.done =>
        /\ w_result.peaks = SelectSeq(w_peaks, IsKept)
        /\ \A j \in 1..Len(w_result.peaks) : InWidthWindow(RecomputedWidth(w_result.peaks[j]))

\* C9 witness: of two candidates one is dropped and one, whose width equals the
\* upper bound, is kept.
C9_Witness ==
    /\ w_result.done
    /\ Len(w_peaks) = 2 /\ Len(w_result.peaks) = 1
    /\ 1000 * RecomputedWidth(w_result.peaks[1]) = w_max * w_fs

\* the bound of the FWHM search around p, and the samples at or below half-max
\* among those the search visits on one side of p
SearchBound(p) == Min2(Min2(p, Len(w_sig) - p - 1), w_fs \div 2)

Crossings(p, from, to) ==
    LET b == LocalBaseline(w_sig, p, WidthBaselineWindow(w_fs), WidthBaselineDistance(w_fs))
    IN  {i \in from..to : AtOrBelowHalfMax(At(w_sig, i), At(w_sig, p), b)}

LeftCrossings(p) == Crossings(p, Max2(0, p - SearchBound(p)) + 1, p)
RightCrossings(p) == Crossings(p, p, Min2(Len(w_sig), p + SearchBound(p)) - 1)

\* C21 (as claimed): a side of the FWHM search that finds no sample at or below
\* half-max within the search bound takes the boundary of the search range,
\* p - bound on the left and p + bound on the right, and the width is
\* right_idx - left_idx samples.
C21_NoCrossingUsesBoundary ==
    w_result.done =>
        \A j \in 1..Len(w_peaks) :
            LET p == w_peaks[j]
                left_idx == IF LeftCrossings(p) = {} THEN p - SearchBound(p)
                            ELSE SetMax(LeftCrossings(p))
                right_idx == IF RightCrossings(p) = {} THEN p + SearchBound(p)
                             ELSE SetMin(RightCrossings(p))
            IN  RecomputedWidth(p) = right_idx - left_idx

\* what the code does instead: a side without a crossing keeps the peak index
C21_NoCrossingKeepsPeakIndex ==
    w_result.done =>
        \A j \in 1..Len(w_peaks) :
            LET p == w_peaks[j]
                left_idx == IF LeftCrossings(p) = {} THEN p ELSE SetMax(LeftCrossings(p))
                right_idx == IF RightCrossings(p) = {} THEN p ELSE SetMin(RightCrossings(p))
            IN  RecomputedWidth(p) = right_idx - left_idx

\* a candidate with no crossing on either side and a search bound above 0
C21_NoCrossingCase ==
    /\ w_result.done
    /\ \E j \in 1..Len(w_peaks) :
          /\ SearchBound(w_peaks[j]) > 0
          /\ LeftCrossings(w_peaks[j]) = {} /\ RightCrossings(w_peaks[j]) = {}

(***************************************************************************)
(* Claims about the filter pipeline, the unit conversion, the band power    *)
(* and the widths of candidates at or below baseline, checked under         *)
(* SpecPure.                                                                *)
(***************************************************************************)
ProcessDone == p_call.fn = "process_signal" /\ p_result.done

ConvertDone == p_call.fn = "convert_units" /\ p_result.done

\* the numbers of an amplitude array handed in, and max(|values|)
CallNumbers == [j \in 1..Len(p_call.values) |-> p_call.values[j].num]
MaxAbs == SetMax({Abs(CallNumbers[j]) : j \in 1..Len(CallNumbers)})

\* out = k * in / d, element by element
ScaledBy(out, in, k, d) ==
    /\ Len(out) = Len(in)
    /\ \A j \in 1..Len(in) : d * out[j].num = k * in[j] * out[j].den

\* C12: in Auto mode, with m = max(|values|), m > 1000 gives values / 1000,
\* 10 < m <= 1000 the values unchanged and m <= 10 values * 1000, each with
\* label "mV"; an explicit unit returns the values unchanged with that label.
C12_ConvertUnitsBands ==
    (ConvertDone /\ Len(p_call.values) > 0) =>
        /\ (p_call.to_unit = "Auto" /\ MaxAbs > 1000000) =>
              /\ ScaledBy(p_result.out.values, CallNumbers, 1, 1000)
              /\ p_result.out.label = "mV"
        /\ (p_call.to_unit = "Auto" /\ MaxAbs > 10000 /\ MaxAbs <= 1000000) =>
              /\ ScaledBy(p_result.out.values, CallNumbers, 1, 1)
              /\ p_result.out.label = "mV"
        /\ (p_call.to_unit = "Auto" /\ MaxAbs <= 10000) =>
              /\ ScaledBy(p_result.out.values, CallNumbers, 1000, 1)
              /\ p_result.out.label = "mV"
        /\ p_call.to_unit # "Auto" =>
              /\ ScaledBy(p_result.out.values, CallNumbers, 1, 1)
              /\ p_result.out.label = p_call.to_unit

\* C12 witness: an Auto call whose largest magnitude is exactly 1000.
C12_Witness ==
    /\ ConvertDone
    /\ p_call.to_unit = "Auto"
    /\ CallNumbers = <<1000000, -3000>>
    /\ p_result.out.label = "mV"

\* the Auto call on the amplitude array [5, -3]
FiveMinusThree ==
    /\ ConvertDone
    /\ p_call.to_unit = "Auto"
    /\ CallNumbers = <<5000, -3000>>

\* C13 (as claimed): in Auto mode [5, -3] is returned unchanged with label "mV".
C13_FiveStaysFive ==
    FiveMinusThree =>
        /\ ScaledBy(p_result.out.values, <<5000, -3000>>, 1, 1)
        /\ p_result.out.label = "mV"

\* C13 (amended): in Auto mode [5, -3] has a largest magnitude between 0.01 and
\* 10 and is returned multiplied by 1000, as [5000, -3000], with label "mV".
C13_FiveTimesThousand ==
    FiveMinusThree =>
        /\ p_result.out.values = <<Q(5000000), Q(-3000000)>>
        /\ p_result.out.label = "mV"

\* C13 witness: the Auto call on [5, -3] has returned.
C13_Witness == FiveMinusThree /\ Len(p_result.out.values) = 2

BandPowerDone == p_call.fn = "compute_band_power" /\ p_result.done

\* the frequency bins inside [lowF, hiF]
InBand == {i \in 1..Len(p_call.f) : p_call.low_f <= p_call.f[i] /\ p_call.f[i] <= p_call.hi_f}

RECURSIVE PowerOver(_, _)
PowerOver(bins, j) ==
    IF bins = {} THEN 0
    ELSE LET i == SetMin(bins) IN p_call.Sxx[i][j] + PowerOver(bins \ {i}, j)

\* C17: the band power has one value per time bin, the mean power over the
\* frequency bins with lowF <= f <= hiF, both limits included; with no bin in
\* the range every value is zero.
C17_BandPowerMeanOrZeros ==
    BandPowerDone =>
        /\ Len(p_result.out) = Len(p_call.tt)
        /\ \A j \in 1..Len(p_call.tt) :
              IF InBand = {} THEN p_result.out[j].num = 0
              ELSE p_result.out[j].num * Cardinality(InBand)
                       = PowerOver(InBand, j) * p_result.out[j].den

\* C17 witness: both limits lie on the same bin, whose power is returned.
C17_Witness ==
    /\ BandPowerDone
    /\ p_call.low_f = 25 /\ p_call.hi_f = 25 /\ InBand = {2}
    /\ Len(p_call.tt) = 2
    /\ p_result.out = <<Q(4), Q(1)>>

DetectDone == p_call.fn = "detect_peaks" /\ p_result.done

\* what the search of the call finds before the width filter
Found ==
    SearchPeaks(p_call.x, p_call.u.sb_prom, (p_call.u.sb_dist * p_call.rate.hz) \div 1000,
                p_call.u.cb_polarity)

\* the sample at p is at or below the local baseline of the width measurement
AtOrBelowBaseline(p) ==
    LET b == LocalBaseline(p_call.x, p, WidthBaselineWindow(p_call.rate.hz),
                           WidthBaselineDistance(p_call.rate.hz))
    IN  b.den * At(p_call.x, p) <= b.num

\* C20: a candidate whose sample is at or below its local baseline has a FWHM
\* of 0, so the width filter, whose minimum width is above 0, discards it, and
\* Negative mode returns no candidate below baseline.
C20_BelowBaselineHasNoWidth ==
    DetectDone =>
        /\ p_call.u.sb_min_width > 0
        /\ \A j \in 1..Len(Found.peaks) :
              AtOrBelowBaseline(Found.peaks[j]) =>
                  /\ PeakWidthSamples(p_call.x, Found.peaks[j], p_call.rate.hz) = 0
                  /\ \A k \in 1..Len(p_result.out.peaks) :
                        p_result.out.peaks[k] # Found.peaks[j]
        /\ p_call.u.cb_polarity = "Negative" =>
              \A k \in 1..Len(p_result.out.peaks) :
                  ~AtOrBelowBaseline(p_result.out.peaks[k])

\* C20 witness: Negative mode finds the two dips of a trace, both below
\* baseline, and returns none of them.
C20_Witness ==
    /\ DetectDone
    /\ p_call.u.cb_polarity = "Negative"
    /\ p_call.x = SigDips
    /\ Len(Found.peaks) = 2
    /\ \A j \in 1..2 : AtOrBelowBaseline(Found.peaks[j])
    /\ p_result.out.peaks = <<>>

\* dist = int(dist_ms / 1000 * fs) of the call, and the candidates it returned
CallDist == (p_call.u.sb_dist * p_call.rate.hz) \div 1000
ReturnedPeaks == {p_result.out.peaks[j] : j \in 1..Len(p_result.out.peaks)}

\* every two distinct members of the set are at least d samples apart
Apart(S, d) == \A p \in S : \A q \in S : p < q => q - p >= d

\* C22 (as claimed): every two distinct candidates returned by a detection run
\* are at least dist samples apart, in every polarity mode including Both.
C22_AllCandidatesApart == DetectDone => Apart(ReturnedPeaks, CallDist)

\* C22 (amended): in Positive and in Negative mode every two distinct candidates
\* returned are at least dist samples apart; in Both mode every candidate is a
\* maximum or a minimum of the signal, two maxima and two minima are at least
\* dist samples apart, and a maximum and a minimum may be closer.
C22_ApartWithinEachPolarity ==
    DetectDone =>
        /\ p_call.u.cb_polarity # "Both" => Apart(ReturnedPeaks, CallDist)
        /\ p_call.u.cb_polarity = "Both" =>
              /\ ReturnedPeaks \subseteq
                     LocalMaxima(p_call.x) \cup LocalMaxima(Negate(p_call.x))
              /\ Apart(ReturnedPeaks \cap LocalMaxima(p_call.x), CallDist)
              /\ Apart(ReturnedPeaks \cap LocalMaxima(Negate(p_call.x)), CallDist)

\* C22 witness: Both mode returns a maximum and a minimum closer than dist.
C22_Witness ==
    /\ DetectDone
    /\ p_call.u.cb_polarity = "Both"
    /\ CallDist >= 5
    /\ \E p \in ReturnedPeaks \cap LocalMaxima(p_call.x) :
          \E q \in ReturnedPeaks \cap LocalMaxima(Negate(p_call.x)) :
              p - q < CallDist /\ q - p < CallDist

\* the Positive-mode and the Negative-mode search on the signal of the call
PosFound == find_peaks(p_call.x, p_call.u.sb_prom, CallDist)
NegFound == find_peaks(Negate(p_call.x), p_call.u.sb_prom, CallDist)
Members(idx) == {idx[j] : j \in 1..Len(idx)}

\* C23: in Both mode the candidates before the width filter are the union of
\* the Positive-mode and the Negative-mode detections on the same signal, in
\* ascending sample index with no index twice, and each prominence stays with
\* its own sample index after the sort.
C23_BothIsSortedUnion ==
    (DetectDone /\ p_call.u.cb_polarity = "Both") =>
        /\ Ascending(Found.peaks)
        /\ Members(Found.peaks) = Members(PosFound.peaks) \cup Members(NegFound.peaks)
        /\ Len(Found.peaks) = Len(PosFound.peaks) + Len(NegFound.peaks)
        /\ Len(Found.prominences) = Len(Found.peaks)
        /\ p_result.out.prominences = Found.prominences
        /\ \A j \in 1..Len(Found.peaks) :
              Found.prominences[j] =
                  IF Found.peaks[j] \in Members(PosFound.peaks)
                  THEN Prominence(p_call.x, Found.peaks[j])
                  ELSE Prominence(Negate(p_call.x), Found.peaks[j])

\* C23 witness: two maxima and two minima interleave, the first minimum lies
\* before the first maximum, and the sort has moved the prominences.
C23_Witness ==
    /\ DetectDone /\ p_call.u.cb_polarity = "Both"
    /\ Len(PosFound.peaks) = 2 /\ Len(NegFound.peaks) = 2
    /\ NegFound.peaks[1] < PosFound.peaks[1] /\ PosFound.peaks[1] < NegFound.peaks[2]
    /\ p_result.out.prominences # PosFound.prominences \o NegFound.prominences

SmoothDone == p_call.fn = "smooth_signal" /\ p_result.done

\* the requested window made odd
ForcedOdd(w) == IF w % 2 = 0 THEN w + 1 ELSE w

\* C24 (as claimed): for every input length and every requested window, even
\* or odd, the smoothing stage forces the window to odd first and then returns
\* the input unchanged when it is shorter than the forced-odd window, and
\* otherwise smooths with the forced-odd window; it never attempts to smooth
\* with a window longer than the input.
C24_OddFirstThenSkipOrSmooth ==
    SmoothDone =>
        LET w == ForcedOdd(p_call.window_length) IN
        /\ ~p_result.out.raised
        /\ IF Len(p_call.x) < w THEN p_result.out.sig = p_call.x
           ELSE p_result.out.sig = SavgolFilter(p_call.x, w)

\* what the code does instead: the length is compared with the requested
\* window, and an even window as long as the input is smoothed with one more
\* sample than the input has, which fails
C24_EvenWindowOfInputLengthFails ==
    SmoothDone =>
        LET w == ForcedOdd(p_call.window_length) IN
        IF Len(p_call.x) < p_call.window_length
        THEN ~p_result.out.raised /\ p_result.out.sig = p_call.x
        ELSE IF Len(p_call.x) < w THEN p_result.out.raised
        ELSE ~p_result.out.raised /\ p_result.out.sig = SavgolFilter(p_call.x, w)

C24_FailingCall ==
    /\ SmoothDone /\ Len(p_call.x) = 6 /\ p_call.window_length = 6
    /\ p_result.out.raised

(***************************************************************************)
(* Claims about the recomputes a handler runs, checked under Spec.          *)
(***************************************************************************)
SmoothWindowChanged == last_op.op = "param" /\ last_op.field = "sb_smooth_window"

\* C25: every recompute reads an odd smoothing window; after a change of the
\* smoothing-window control an even value has become the next odd value, never
\* above 501, before any recompute runs, and each change, even or odd, leads to
\* exactly one recompute, with the excluded set cleared.
C25_OddWindowOneRecompute ==
    /\ ui.sb_smooth_window % 2 = 1 /\ ui.sb_smooth_window <= 501
    /\ \A k \in 1..Len(runs) : runs[k].window % 2 = 1
    /\ SmoothWindowChanged =>
          /\ ui.sb_smooth_window = ForcedOdd(last_op.entered)
          /\ Len(runs) = 1
          /\ runs[1].window = ForcedOdd(last_op.entered)
          /\ runs[1].peaks_removed = {}
          /\ peaks_removed = {}

\* C25 witness: with a candidate excluded the user enters the even value 500,
\* and the one recompute that follows reads 501 and finds the candidates.
C25_Witness ==
    /\ SmoothWindowChanged
    /\ last_op.entered = 500
    /\ prev_removed # {}
    /\ Len(runs) = 1 /\ runs[1].how = "ok" /\ runs[1].window = 501

AmplitudeDone == p_call.fn = "calculate_peak_amplitudes" /\ p_result.done

\* the median of the in-bounds samples of the two guard windows of p, each
\* window samples long and guard samples away from p; with both windows empty
\* the mean of the samples at most 5 away from p
GuardWindowBaseline(x, p, window, guard) ==
    LET left == Slice(x, Max2(0, p - window - guard), Max2(0, p - guard))
        right == Slice(x, Min2(Len(x), p + guard), Min2(Len(x), p + window + guard))
    IN  IF left = <<>> /\ right = <<>>
        THEN Mean(Slice(x, Max2(0, p - 5), Min2(Len(x), p + 6)))
        ELSE Median(left \o right)

\* a is the sample at p less the baseline b
IsAmplitude(a, x, p, b) == a.num * b.den = (b.den * At(x, p) - b.num) * a.den

\* the FWHM of the peak at p over the baseline b, in samples: the first sample
\* at or below half-max on each side within the search bound, p where there is
\* none
FwhmOver(x, p, rate, b) ==
    LET bound == Min2(Min2(p, Len(x) - p - 1), rate \div 2)
        lefts == {i \in (Max2(0, p - bound) + 1)..p : AtOrBelowHalfMax(At(x, i), At(x, p), b)}
        rights == {i \in p..(Min2(Len(x), p + bound) - 1) :
                      AtOrBelowHalfMax(At(x, i), At(x, p), b)}
    IN  (IF rights = {} THEN p ELSE SetMin(rights)) - (IF lefts = {} THEN p ELSE SetMax(lefts))

\* the widths of the peaks of the call
CallWidths == calculate_peak_widths(p_call.x, p_call.peak_indices, p_call.hz)

\* the width measurement uses the window max(20, 0.1 fs) and the guard distance
\* max(10, window / 4)
WidthsUseWindowOfTwenty ==
    \A j \in 1..Len(p_call.peak_indices) :
        LET window == Max2(20, p_call.hz \div 10) IN
        CallWidths[j] = FwhmOver(p_call.x, p_call.peak_indices[j], p_call.hz,
                            GuardWindowBaseline(p_call.x, p_call.peak_indices[j], window,
                                                Max2(10, window \div 4)))

\* C26 (as claimed): amplitude and width estimate the local baseline with the
\* same window length max(20, 0.1 fs) for every fs and differ only in the guard
\* distance, max(5, window / 4) for amplitude and max(10, window / 4) for width;
\* the baseline is the median of the in-bounds guard windows, or the mean of
\* the +-5-sample neighbourhood when both are empty.
C26_SameWindowOfTwenty ==
    AmplitudeDone =>
        /\ WidthsUseWindowOfTwenty
        /\ Len(p_result.out) = Len(p_call.peak_indices)
        /\ \A j \in 1..Len(p_call.peak_indices) :
              LET window == Max2(20, p_call.hz \div 10) IN
              IsAmplitude(p_result.out[j], p_call.x, p_call.peak_indices[j],
                          GuardWindowBaseline(p_call.x, p_call.peak_indices[j], window,
                                              Max2(5, window \div 4)))

\* C26 (amended): the width measurement uses the window max(20, 0.1 fs) with
\* guard distance max(10, window / 4), the amplitude measurement the window
\* max(10, 0.1 fs) with guard distance max(5, window / 4), so the two windows
\* are equal only for fs >= 200; the baseline is the median of the in-bounds
\* guard windows, or the mean of the +-5-sample neighbourhood when both are
\* empty.
C26_AmplitudeWindowOfTen ==
    AmplitudeDone =>
        /\ WidthsUseWindowOfTwenty
        /\ Len(p_result.out) = Len(p_call.peak_indices)
        /\ \A j \in 1..Len(p_call.peak_indices) :
              LET window == Max2(10, p_call.hz \div 10) IN
              IsAmplitude(p_result.out[j], p_call.x, p_call.peak_indices[j],
                          GuardWindowBaseline(p_call.x, p_call.peak_indices[j], window,
                                              Max2(5, window \div 4)))
        /\ p_call.hz >= 200 => Max2(10, p_call.hz \div 10) = Max2(20, p_call.hz \div 10)

\* C26 witness: at 100 Hz the peak at sample 16 of the 24-sample trace has the
\* amplitude 40 - 7 = 33 over the 10-sample window; the 20-sample window would
\* give 40 - 6.5.
C26_Witness ==
    /\ AmplitudeDone
    /\ p_call.x = SigLong /\ p_call.peak_indices = <<16>> /\ p_call.hz = 100
    /\ p_result.out[1].num = 33 * p_result.out[1].den
    /\ ~IsAmplitude(p_result.out[1], SigLong, 16, GuardWindowBaseline(SigLong, 16, 20, 5))

(***************************************************************************)
(* Claims about the markers and the excluded set, checked under Spec.       *)
(***************************************************************************)
\* the spots whose click reaches _peak_clicked: those of self.scatter, while it
\* is an item of the trace plot
Clickable == IF plot_trace.scatter THEN scatter ELSE {}

\* C27 (as claimed): an excluded candidate can be re-included without a reset:
\* the marker drawn for every position in the excluded set still delivers a
\* toggle event carrying that position when clicked.
C27_ExcludedMarkerClickable ==
    recompute = "ok" =>
        \A i \in peaks_removed : i \in plot_trace.removed => i \in Clickable

\* what the code does instead: after a recompute that found candidates the
\* markers of the excluded positions are drawn by a scatter of their own, which
\* has no click handler, and self.scatter holds the kept positions only
C27_ExcludedMarkerNotClickable ==
    (recompute = "ok" /\ plot_trace.removed # {}) =>
        /\ plot_trace.removed \subseteq peaks_removed
        /\ Clickable \cap peaks_removed = {}

C27_ExcludedDrawn ==
    /\ recompute = "ok" /\ last_op.op = "click"
    /\ plot_trace.removed = {1} /\ peaks_removed = {1} /\ Clickable = {0, 2}

\* C28 (as claimed): each member of the excluded set is a valid position in the
\* current candidate array, also after a recompute that finds no candidate
\* while markers of an earlier detection remain clickable; so the number of
\* curated peaks plus the size of the excluded set is the number of candidates.
C28_ExcludedPositionsValid ==
    (recompute = "ok" /\ curated_peaks.known) =>
        /\ \A i \in peaks_removed : 0 <= i /\ i < Len(Candidates.peaks)
        /\ Len(curated_peaks.idx) + Cardinality(peaks_removed) = Len(Candidates.peaks)

\* a click on a marker left over from an earlier detection has put a position
\* into the excluded set although the recompute finds no candidate
C28_StaleMarkerClicked ==
    /\ recompute = "ok" /\ last_op.op = "click"
    /\ Len(Candidates.peaks) = 0 /\ curated_peaks = Curated(<<>>)
    /\ peaks_removed # {}

\* C29 (as claimed): for every sampling rate above 0 and every minimum distance
\* the control allows, detection completes and returns a candidate array; a
\* distance of 0 samples does not make it fail and does not abort the recompute:
\* a recompute that failed had no working signal to search.
C29_DistanceNeverAbortsRecompute ==
    (last_op.op # "load" /\ Len(runs) = 1 /\ runs[1].how = "failed") =>
        process_signal(runs[1].src, fs, ui).raised

\* the recompute after the minimum distance was set to 5 ms at 100 Hz: the
\* working signal is there, the distance is 0 samples and detection has raised
C29_ZeroDistanceAborts ==
    /\ last_op.op = "param" /\ last_op.field = "sb_dist"
    /\ fs = Fs(100) /\ ui.sb_dist = 5 /\ (ui.sb_dist * fs.hz) \div 1000 = 0
    /\ Len(runs) = 1 /\ runs[1].how = "failed"
    /\ ~process_signal(runs[1].src, fs, ui).raised
    /\ Candidates.raised

(***************************************************************************)
(* Claims about the recomputes of a load, checked under Spec.               *)
(***************************************************************************)
Selection == <<ui.cb_trace, ui.sb_chan, ui.sb_sweep>>

\* the recomputes of the last handler that read a trace
TraceRuns == {k \in 1..Len(runs) : runs[k].how # "no_fs"}

\* C30 (as claimed): while a load is in progress no recompute runs: the only
\* recompute of a load that reads a trace is the one after the loader has
\* returned, with the rate and the selection of the new recording, and that
\* one is the first to fill the spectrogram cache the load has cleared.
C30_NoRecomputeDuringLoad ==
    last_op.op = "load" =>
        \A k \in TraceRuns :
            /\ k = Len(runs)
            /\ runs[k].fs = fs
            /\ runs[k].selection = Selection
            /\ runs[k].src = get_current_trace(App)

\* what the code does instead: the loader's widget calls emit their signals, so
\* recomputes run inside the load; here a CSV file opened after an ABF
\* recording is searched with the ABF rate of 200 Hz before its own rate of
\* 100 Hz is set, and that recompute is the first to fill the cache
C30_NewSamplesOldRate ==
    /\ last_op.op = "load" /\ last_op.field = "two.csv"
    /\ fs = Fs(100)
    /\ \E k \in TraceRuns :
          /\ k < Len(runs)
          /\ runs[k].fs = Fs(200)
          /\ runs[k].src \in {At(TwoCsv.data, 0), At(TwoCsv.data, 1)}
          /\ runs[k].how = "ok"
          /\ \A j \in 1..(k - 1) : runs[j].how # "ok"

====
